---- MODULE Spec2Model ----
(***************************************************************************)
(* The grid planning and reconciliation engine of the Polymarket range     *)
(* grid bot, src/poly.py.                                                  *)
(*                                                                         *)
(* Numbers.  The program computes with Python floats that are parsed from  *)
(* short decimal literals.  The model is fixed point:                      *)
(*   prices, spacings, range bounds   units of 10^-6 USD  (0.48 = 480000)  *)
(*   sizes, positions                 hundredths of a share (20.83 = 2083) *)
(*   order_size_usd, max_position_usd whole USD                            *)
(*   position value                   units of 10^-5 USD                   *)
(*   order value, traded volume       units of 10^-5 USD                   *)
(* Binary rounding error of a float operation is far below one unit and is *)
(* left out, except where it decides a result: round(price/grid_spacing)   *)
(* on a quotient that is mathematically k + 1/2 (DivTieBelow, DivTieAbove).*)
(***************************************************************************)
EXTENDS Integers, Sequences, FiniteSets, TLC

Micro == 10^6

Abs(x) == IF x < 0 THEN -x ELSE x

(***************************************************************************)
(* Bounds of the model.                                                    *)
(***************************************************************************)
\* prices drawn as inputs are k * 0.005 for k in 1..MaxPriceK
MaxPriceK == 199

PriceStep == Micro \div 200

Prices == {k * PriceStep : k \in 1..MaxPriceK}

\* the ladders are generated with MaxLevels - 1 and MaxLevels rungs per side
MaxLevels == 3

\* the exchange opens at most MaxOrders orders in a run
MaxOrders == 4

(***************************************************************************)
(* round_price                                                             *)
(***************************************************************************)
\* price / grid_spacing in IEEE-754 double arithmetic, for the pairs whose
\* exact quotient is k + 1/2: the pairs where the computed quotient is the
\* double just below (above) k + 1/2.  For every other tie of Prices with the
\* spacings 0.01 and 0.02 the computed quotient is exactly k + 1/2.
DivTieBelow ==
    { <<145000, 10000>>, <<235000, 10000>>, <<285000, 10000>>,
      <<295000, 10000>>, <<565000, 10000>>, <<575000, 10000>>,
      <<585000, 10000>>, <<595000, 10000>>, <<290000, 20000>>,
      <<470000, 20000>>, <<570000, 20000>>, <<590000, 20000>> }

DivTieAbove ==
    { <<35000, 10000>>, <<555000, 10000>>, <<70000, 20000>> }

\* round(price / grid_spacing + 0.5): the floor(x + 0.5) idiom left inside
\* a call of round()
PyRoundHalfAdded(num, den) ==
    LET n2 == 2 * num + den
        d2 == 2 * den
        q == n2 \div d2
        r == n2 % d2
    IN  IF 2 * r < d2 THEN q
        ELSE IF 2 * r > d2 THEN q + 1
        ELSE IF q % 2 = 0 THEN q ELSE q + 1

\* int(price / grid_spacing): truncation in place of round()
PyRoundTruncated(num, den) == num \div den

\* Python's round(num / den) on floats: nearest integer, an exact half goes
\* to the even neighbour (\div is the floor, % is never negative)
PyRound(num, den) ==
    LET q == num \div den
        r == num % den
    IN  IF 2 * r < den THEN q
        ELSE IF 2 * r > den THEN q + 1
        ELSE IF <<num, den>> \in DivTieBelow THEN q
        ELSE IF <<num, den>> \in DivTieAbove THEN q + 1
        ELSE IF q % 2 = 0 THEN q ELSE q + 1

\* Decimal.quantize(10 ** -precision, ROUND_HALF_UP): halves go away from zero
Quantize(x, precision) ==
    LET u == 10^(6 - precision)
        h == u \div 2
    IN  IF x >= 0 THEN ((x + h) \div u) * u
        ELSE -((((-x) + h) \div u) * u)

round_price(price, precision, grid_spacing) ==
    Quantize(PyRound(price, grid_spacing) * grid_spacing, precision)

(***************************************************************************)
(* The constructor's check of price_precision against grid_spacing.        *)
(***************************************************************************)
RECURSIVE TrailingZeros(_)
TrailingZeros(x) == IF x % 10 # 0 THEN 0 ELSE 1 + TrailingZeros(x \div 10)

\* the number of decimals grid_spacing really has
Decimals(grid_spacing) == 6 - TrailingZeros(grid_spacing)

\* len(str(grid_spacing).split('.')[-1]): str() of a float of at least 1e-4
\* is positional ('0.025' -> '025'); below 1e-4 it is scientific, and for a
\* mantissa of one or two digits ('4e-06', '2.5e-05') the last piece has 5
\* characters
min_precision_needed(grid_spacing) ==
    IF grid_spacing >= 100 THEN Decimals(grid_spacing) ELSE 5

PrecisionAccepted(grid_spacing, price_precision) ==
    price_precision >= min_precision_needed(grid_spacing)

\* the constructor's validation of its parameters: it raises unless this holds
ConfigAccepted(c) ==
    /\ ~(c.grid_spacing <= 0 \/ c.grid_spacing >= Micro)
    /\ ~(c.order_size_usd <= 0)
    /\ ~(c.grid_levels <= 0)
    /\ ~(c.max_position_usd <= 0)
    /\ (0 < c.range_min /\ c.range_min < Micro)
    /\ (0 < c.range_max /\ c.range_max < Micro)
    /\ ~(c.range_min >= c.range_max)
    /\ PrecisionAccepted(c.grid_spacing, c.price_precision)

(***************************************************************************)
(* Position ledger: calculate_position_value, can_place_order,             *)
(* calculate_order_size.                                                   *)
(***************************************************************************)
BUY == "BUY"
SELL == "SELL"

\* a * b / 1000 cut towards zero, for a >= 0 and b >= 0, without leaving
\* 32 bits
MulMilli(a, b) == a * (b \div 1000) + (a * (b % 1000)) \div 1000

\* position_yes * mid_price in units of 10^-5 USD, cut towards zero: the
\* comparisons below are with whole USD amounts, which the cut keeps exact
calculate_position_value(position, mid) ==
    IF position >= 0 THEN MulMilli(position, mid)
    ELSE -MulMilli(-position, mid)

UsdValue(usd) == usd * 10^5

\* can_place_order without the holding test of the SELL side
can_place_order_any_holding(c, position, side, mid) ==
    LET position_value == calculate_position_value(position, mid)
    IN  IF side = BUY
        THEN ~(position_value >= UsdValue(c.max_position_usd))
        ELSE ~(position_value <= -UsdValue(c.max_position_usd))

can_place_order(c, position, side, mid) ==
    LET position_value == calculate_position_value(position, mid)
    IN  IF side = BUY
        THEN ~(position_value >= UsdValue(c.max_position_usd))
        ELSE IF side = SELL
        THEN /\ ~(position <= 0)
             /\ ~(position_value <= -UsdValue(c.max_position_usd))
        ELSE TRUE

\* calculate_order_size without abs(): only a long position suppresses
calculate_order_size_signed(c, position, mid) ==
    IF calculate_position_value(position, mid) >= UsdValue(c.max_position_usd)
    THEN 0
    ELSE c.order_size_usd

calculate_order_size(c, position, mid) ==
    LET position_value == Abs(calculate_position_value(position, mid))
    IN  IF position_value >= UsdValue(c.max_position_usd) THEN 0
        ELSE c.order_size_usd

(***************************************************************************)
(* generate_range_grid_orders                                              *)
(***************************************************************************)
\* the price validation bounds 0.01 and 0.99
MinPrice == 10000
MaxPrice == 990000

\* size = size_usd / price, in hundredths of a share, as a fraction
SizeNum(size_usd) == size_usd * 100 * Micro

\* round(size, 2) of size = size_usd / price
RoundedSize(size_usd, price) ==
    LET q == SizeNum(size_usd) \div price
        r == SizeNum(size_usd) % price
    IN  IF 2 * r < price THEN q
        ELSE IF 2 * r > price THEN q + 1
        ELSE IF q % 2 = 0 THEN q ELSE q + 1

\* size < self.min_order_size
SizeBelowMin(c, size_usd, price) ==
    SizeNum(size_usd) \div price < c.min_order_size

\* size > self.max_order_size
SizeAboveMax(c, size_usd, price) ==
    LET q == SizeNum(size_usd) \div price
        r == SizeNum(size_usd) % price
    IN  q > c.max_order_size \/ (q = c.max_order_size /\ r > 0)

\* the 'size' of an appended rung
RungSize(c, size_usd, price) ==
    IF SizeAboveMax(c, size_usd, price) THEN c.max_order_size
    ELSE RoundedSize(size_usd, price)

\* the BUY range test without its lower bound
BuyOutsideRangeNoMin(c, price, mid) == price >= mid

\* "Skip if outside range" of the BUY loop
BuyOutsideRange(c, price, mid) == price < c.range_min \/ price >= mid

\* "Skip if outside range" of the SELL loop
SellOutsideRange(c, price, mid) == price > c.range_max \/ price <= mid

\* no duplicate test at all
NeverDuplicate(price, placed_prices) == FALSE

\* "Skip duplicate prices"
IsDuplicate(price, placed_prices) == price \in placed_prices

\* the BUY loop from iteration i on; acc holds orders and placed_prices
RECURSIVE BuyLoop(_, _, _, _, _, _, _)
BuyLoop(c, position, mid, size_usd, base_price, i, acc) ==
    IF i >= c.grid_levels THEN acc
    ELSE
      LET raw_price == base_price - i * c.grid_spacing
          price == round_price(raw_price, c.price_precision, c.grid_spacing)
          marked == [acc EXCEPT !.placed_prices = @ \cup {price}]
          rung == [side |-> BUY, price |-> price,
                   size |-> RungSize(c, size_usd, price), level |-> -i]
          continue(a) == BuyLoop(c, position, mid, size_usd, base_price, i + 1, a)
      IN  IF BuyOutsideRange(c, price, mid) THEN continue(acc)
          ELSE IF price < MinPrice THEN continue(acc)
          ELSE IF IsDuplicate(price, acc.placed_prices) THEN continue(acc)
          ELSE IF ~can_place_order(c, position, BUY, mid) THEN marked
          ELSE IF SizeBelowMin(c, size_usd, price) THEN continue(marked)
          ELSE continue([marked EXCEPT !.orders = Append(@, rung)])

\* the SELL loop from iteration i on
RECURSIVE SellLoop(_, _, _, _, _, _, _)
SellLoop(c, position, mid, size_usd, base_price, i, acc) ==
    IF i >= c.grid_levels THEN acc
    ELSE
      LET raw_price == base_price + i * c.grid_spacing
          price == round_price(raw_price, c.price_precision, c.grid_spacing)
          marked == [acc EXCEPT !.placed_prices = @ \cup {price}]
          rung == [side |-> SELL, price |-> price,
                   size |-> RungSize(c, size_usd, price), level |-> i]
          continue(a) == SellLoop(c, position, mid, size_usd, base_price, i + 1, a)
      IN  IF SellOutsideRange(c, price, mid) THEN continue(acc)
          ELSE IF price > MaxPrice THEN continue(acc)
          ELSE IF IsDuplicate(price, acc.placed_prices) THEN continue(acc)
          ELSE IF ~can_place_order(c, position, SELL, mid) THEN marked
          ELSE IF SizeBelowMin(c, size_usd, price) THEN continue(marked)
          ELSE continue([marked EXCEPT !.orders = Append(@, rung)])

\* the BUY base_price without the step below the mid price
BuyBaseAtMid(c, mid) == round_price(mid, c.price_precision, c.grid_spacing)

\* base_price of the BUY loop: the grid line at the mid price, one spacing
\* lower when that is not below the mid price
BuyBase(c, mid) ==
    LET base_price == round_price(mid, c.price_precision, c.grid_spacing)
    IN  IF base_price >= mid THEN base_price - c.grid_spacing ELSE base_price

\* base_price of the SELL loop
SellBase(c, mid) ==
    LET base_price == round_price(mid, c.price_precision, c.grid_spacing)
    IN  IF base_price <= mid THEN base_price + c.grid_spacing ELSE base_price

generate_range_grid_orders(c, position, mid) ==
    LET size_usd == calculate_order_size(c, position, mid)
        buys == BuyLoop(c, position, mid, size_usd, BuyBase(c, mid), 0,
                        [orders |-> <<>>, placed_prices |-> {}])
        all == SellLoop(c, position, mid, size_usd, SellBase(c, mid), 0, buys)
    IN  IF size_usd = 0 THEN <<>> ELSE all.orders

(***************************************************************************)
(* update_active_orders                                                    *)
(***************************************************************************)
\* list(self.active_orders.keys()): a dict lists its keys in insertion
\* order, and the exchange of the model hands out increasing ids
RECURSIVE SortedIds(_)
SortedIds(S) ==
    IF S = {} THEN <<>>
    ELSE LET m == CHOOSE x \in S : \A y \in S : x <= y
         IN  <<m>> \o SortedIds(S \ {m})

OrderIds(order_set) == {o.id : o \in order_set}

\* self.active_orders[order_id]
OrderOf(active, order_id) == CHOOSE o \in active : o.id = order_id

\* order['size'] * order['price'] in units of 10^-5 USD
OrderValue(order) == MulMilli(order.size, order.price)

\* the position update that adds the size whatever the side
apply_fill_unsigned(position, order) == position + order.size

\* "Update position tracking"
apply_fill(position, order) ==
    IF order.side = BUY THEN position + order.size
    ELSE IF order.side = SELL THEN position - order.size
    ELSE position

\* a volume that counts the BUY fills only
add_volume_buys_only(volume, order) ==
    IF order.side = BUY THEN volume + OrderValue(order) ELSE volume

\* "Update total volume"
add_volume(volume, order) == volume + OrderValue(order)

\* the loop without its del statement
untrack_nothing(active, order) == active

\* del self.active_orders[order_id]
untrack(active, order) == active \ {order}

\* the loop over tracked_ids; st holds the state the loop updates
RECURSIVE ReconcileLoop(_, _, _)
ReconcileLoop(tracked_ids, open_order_ids, st) ==
    IF tracked_ids = <<>> THEN st
    ELSE
      LET order_id == Head(tracked_ids)
          order == OrderOf(st.active_orders, order_id)
          filled == [side |-> order.side, price |-> order.price,
                     size |-> order.size, value |-> OrderValue(order)]
      IN  IF order_id \notin open_order_ids
          THEN ReconcileLoop(Tail(tracked_ids), open_order_ids,
                 [active_orders |-> untrack(st.active_orders, order),
                  position_yes |-> apply_fill(st.position_yes, order),
                  total_volume |-> add_volume(st.total_volume, order),
                  filled_orders |-> Append(st.filled_orders, filled),
                  filled_ids |-> Append(st.filled_ids, order_id)])
          ELSE ReconcileLoop(Tail(tracked_ids), open_order_ids, st)

\* the state after update_active_orders, and the filled_orders it returns
\* (filled_ids: the order id each of them was appended for), when
\* get_open_orders returned open_orders
update_active_orders(active, position, volume, open_orders) ==
    ReconcileLoop(SortedIds(OrderIds(active)), OrderIds(open_orders),
                  [active_orders |-> active, position_yes |-> position,
                   total_volume |-> volume, filled_orders |-> <<>>,
                   filled_ids |-> <<>>])

(***************************************************************************)
(* place_order                                                             *)
(***************************************************************************)
max_retries == 2

\* what one attempt (create_order and post_order) can end in:
\*   "accepted"  the exchange opens the order and the response carries its id
\*   "rejected"  no order is opened: an error response, or an exception
\*   "lost"      the exchange opens the order, and the client gets no id
\*               (the call raised, or the response lacks 'orderID')
Outcomes == {"accepted", "rejected", "lost"}

\* the validation without the test of the size
OrderInvalidPriceOnly(price, size) == price <= 0 \/ price >= Micro

\* "Validate order parameters"
OrderInvalid(price, size) == (price <= 0 \/ price >= Micro) \/ size <= 0

\* a wait after every failed attempt, the last included
retry_wait_always(attempt) == 1

\* the seconds slept after failed attempt number attempt (counted from 1):
\* asyncio.sleep(1) and continue, unless it was the last attempt
retry_wait(attempt) == IF attempt < max_retries THEN 1 ELSE 0

\* the attempts from number attempt on; st holds active_orders, exchange,
\* next_id, the returned id (0 for None), the number of attempts that went
\* to the exchange (create_order, post_order) and the seconds slept
RECURSIVE PlaceLoop(_, _, _, _, _, _)
PlaceLoop(side, price, size, outcomes, attempt, st) ==
    IF attempt > max_retries THEN st
    ELSE IF OrderInvalid(price, size) THEN st
    ELSE
      LET opened == [id |-> st.next_id, side |-> side, price |-> price,
                     size |-> size]
      IN  IF outcomes[attempt] = "accepted"
          THEN [active_orders |-> st.active_orders \cup {opened},
                exchange |-> st.exchange \cup {opened},
                next_id |-> st.next_id + 1,
                returned |-> opened.id,
                submitted |-> st.submitted + 1,
                waited |-> st.waited]
          ELSE IF outcomes[attempt] = "lost"
          THEN PlaceLoop(side, price, size, outcomes, attempt + 1,
                 [st EXCEPT !.exchange = @ \cup {opened},
                            !.next_id = @ + 1,
                            !.submitted = @ + 1,
                            !.waited = @ + retry_wait(attempt)])
          ELSE PlaceLoop(side, price, size, outcomes, attempt + 1,
                 [st EXCEPT !.submitted = @ + 1,
                            !.waited = @ + retry_wait(attempt)])

\* a place_order that returns the id without storing the order
place_order_untracked(active, exch, id, side, price, size, outcomes) ==
    [PlaceLoop(side, price, size, outcomes, 1,
               [active_orders |-> active, exchange |-> exch, next_id |-> id,
                returned |-> 0, submitted |-> 0, waited |-> 0])
       EXCEPT !.active_orders = active]

place_order(active, exch, id, side, price, size, outcomes) ==
    PlaceLoop(side, price, size, outcomes, 1,
              [active_orders |-> active, exchange |-> exch, next_id |-> id,
               returned |-> 0, submitted |-> 0, waited |-> 0])

(***************************************************************************)
(* State.  One PolymarketGridBot instance and the exchange it trades on.   *)
(***************************************************************************)
VARIABLES
    cfg,            \* the constructor's parameters (self.grid_levels, ...)
    active_orders,  \* self.active_orders: the tracked orders, one per id
    position_yes,   \* self.position_yes
    total_volume,   \* self.total_volume
    exchange,       \* the orders of this token open on the exchange
    next_id,        \* the next order id the exchange hands out
    pc,             \* where the running cycle (or the pure call) stands
    mid_price,      \* run_cycle's mid_price
    reconciled,     \* the last update_active_orders call: what it saw and did
    target_grid,    \* run_cycle's target_grid
    orders,         \* run_cycle's orders: the rungs still to be placed
    placed,         \* the place_order calls of the cycle and what they returned
    raised,         \* the exception that ended the cycle, "none" without one
    realized_pnl,   \* self.realized_pnl
    fills,          \* the fill records update_active_orders has appended to
                    \* its filled_orders since the process started, each
                    \* with the id of its order
    args,           \* the arguments of a call of a function taken alone
    result,         \* the results of that function, in call order
    bot_configs,    \* main: the list of the configurations of the tokens
    bots,           \* the bot instances main has constructed, in list order
    main_pc,        \* where main (construction, run, shutdown) stands
    turn,           \* the index of the bot a loop over the bots is at
    startup_io,     \* the network calls made so far while constructing
    escaped,        \* the exception that left the main loop of run
    cancel_log      \* the cancel_all_orders calls of the shutdown pass

botvars == <<cfg, active_orders, position_yes, total_volume, exchange, next_id,
             pc, mid_price, reconciled, target_grid, orders, placed, raised,
             realized_pnl, fills>>

mainvars == <<bot_configs, bots, main_pc, turn, startup_io, escaped,
              cancel_log>>

vars == <<cfg, active_orders, position_yes, total_volume, exchange, next_id,
          pc, mid_price, reconciled, target_grid, orders, placed, raised,
          realized_pnl, fills, args, result, bot_configs, bots, main_pc, turn,
          startup_io, escaped, cancel_log>>

NoCall == [tracked |-> {}, reported |-> {}, position_before |-> 0,
           filled_orders |-> <<>>]

\* no exception
NoException == [kind |-> "none", at |-> "none"]

\* the (grid_spacing, price_precision) pairs offered to the constructor
SpacingChoices == {10000, 20000, 25000, 4}
PrecisionChoices == {2, 3, 5}

\* the state of a bot that is not part of the specification at hand
BotUnused ==
    /\ cfg = [grid_levels |-> 0]
    /\ active_orders = {}
    /\ position_yes = 0
    /\ total_volume = 0
    /\ exchange = {}
    /\ next_id = 1
    /\ pc = "unused"
    /\ mid_price = 0
    /\ reconciled = NoCall
    /\ target_grid = <<>>
    /\ orders = <<>>
    /\ placed = <<>>
    /\ raised = NoException
    /\ realized_pnl = 0
    /\ fills = <<>>

\* the state of main where the specification at hand has no main
MainUnused ==
    /\ bot_configs = <<>>
    /\ bots = <<>>
    /\ main_pc = "unused"
    /\ turn = 0
    /\ startup_io = <<>>
    /\ escaped = NoException
    /\ cancel_log = <<>>

InitRound ==
    /\ args \in { a \in [price : Prices, precision : PrecisionChoices,
                         grid_spacing : SpacingChoices] :
                    PrecisionAccepted(a.grid_spacing, a.precision) }
    /\ result = <<>>
    /\ BotUnused
    /\ MainUnused

\* round_price applied to the price, then to its own result
ApplyRound ==
    /\ Len(result) < 2
    /\ result' = Append(result,
                    round_price(IF result = <<>> THEN args.price
                                ELSE result[Len(result)],
                                args.precision, args.grid_spacing))
    /\ UNCHANGED <<args, botvars>>
    /\ UNCHANGED mainvars

NextRound == ApplyRound

SpecRound == InitRound /\ [][NextRound]_vars

(***************************************************************************)
(* Price source: get_token_price_from_gamma, get_order_book,               *)
(* get_mid_price, get_current_price.                                       *)
(***************************************************************************)
\* None as a price
NoPrice == -1

\* the 0.005 added to a lone best bid, taken from a lone best ask
HalfTick == 5000

\* the mid price of an empty book
DefaultMid == 500000

\* what get_order_book returns: None after its three failed attempts, or
\* the book, its bids and asks as the lists of their prices
NoBook == [ok |-> FALSE, bids |-> <<>>, asks |-> <<>>]
Book(bids, asks) == [ok |-> TRUE, bids |-> bids, asks |-> asks]

\* Python's truth value of an Optional[float]: None and 0.0 are false
Truthy(price) == price # NoPrice /\ price # 0

get_mid_price(book) ==
    IF ~book.ok THEN NoPrice
    ELSE
      LET best_bid == IF book.bids # <<>> THEN book.bids[1] ELSE NoPrice
          best_ask == IF book.asks # <<>> THEN book.asks[1] ELSE NoPrice
      IN  IF Truthy(best_bid) /\ Truthy(best_ask)
          THEN (best_bid + best_ask) \div 2
          ELSE IF Truthy(best_bid) THEN best_bid + HalfTick
          ELSE IF Truthy(best_ask) THEN best_ask - HalfTick
          ELSE DefaultMid

\* gamma_price is what get_token_price_from_gamma returned
get_current_price(gamma_price, book) ==
    IF Truthy(gamma_price) THEN gamma_price ELSE get_mid_price(book)

(***************************************************************************)
(* Spec: one bot running cycles against the exchange.                      *)
(***************************************************************************)
BotConfigChoices ==
    [ grid_levels : {2},
      grid_spacing : {20000},
      price_precision : {1, 3},
      order_size_usd : {10},
      max_position_usd : {20},
      min_order_size : {10},
      max_order_size : {1000000},
      range_min : {300000},
      range_max : {700000} ]

\* the prices the feed reports
MidChoices == {500000}

Init ==
    /\ cfg \in {c \in BotConfigChoices : ConfigAccepted(c)}
    /\ active_orders = {}
    /\ position_yes = 0
    /\ total_volume = 0
    /\ exchange = {}
    /\ next_id = 1
    /\ pc = "idle"
    /\ mid_price = NoPrice
    /\ reconciled = NoCall
    /\ target_grid = <<>>
    /\ orders = <<>>
    /\ placed = <<>>
    /\ raised = NoException
    /\ realized_pnl = 0
    /\ fills = <<>>
    /\ MainUnused
    /\ args = [price |-> 0]
    /\ result = <<>>

\* a cycle that plans before it reconciles
next_phase_plan_first(phase) ==
    IF phase = "idle" THEN "plan"
    ELSE IF phase = "plan" THEN "reconcile"
    ELSE "place"

\* the order of the statements of run_cycle: the price, then
\* update_active_orders, then the target grid and the missing orders, then
\* the placement loop
next_phase(phase) ==
    IF phase = "idle" THEN "reconcile"
    ELSE IF phase = "reconcile" THEN "plan"
    ELSE "place"

\* the price checks without the test of the bounds
PriceRejectedNoneOnly(price) == price = NoPrice

\* run_cycle's price checks: "mid_price is None", and
\* "mid_price <= 0 or mid_price >= 1"
PriceRejected(price) == price = NoPrice \/ price <= 0 \/ price >= Micro

\* run_cycle up to the price checks, with get_current_price returning one of
\* prices: a rejected price ends the cycle
FetchPriceFrom(prices) ==
    /\ pc = "idle"
    /\ \E price \in prices :
          /\ mid_price' = price
          /\ pc' = IF PriceRejected(price) THEN "done" ELSE next_phase(pc)
    /\ UNCHANGED <<cfg, active_orders, position_yes, total_volume, exchange,
                   next_id, reconciled, target_grid, orders, placed, raised,
                   args, result, realized_pnl, fills>>
    /\ UNCHANGED mainvars

FetchPrice == FetchPriceFrom(MidChoices \cup {NoPrice})

\* the lists get_open_orders can return: the open orders of the token (its
\* answer when every approach raises, [], is not drawn here)
get_open_orders(exch) == {exch}

\* the records a call of update_active_orders appended to filled_orders,
\* each with the id of the order it was appended for
FillLog(r) ==
    [i \in DOMAIN r.filled_orders |->
        [id |-> r.filled_ids[i],
         side |-> r.filled_orders[i].side,
         price |-> r.filled_orders[i].price,
         size |-> r.filled_orders[i].size,
         value |-> r.filled_orders[i].value]]

\* the history of the fill records with those of one more call, kept in
\* the order of the order ids: the order of the calls is of no interest
AddFills(history, r) ==
    SortSeq(history \o FillLog(r), LAMBDA a, b : a.id < b.id)

\* run_cycle: filled_orders = self.update_active_orders()
UpdateActiveOrders ==
    /\ pc = "reconcile"
    /\ \E open_orders \in get_open_orders(exchange) :
          LET r == update_active_orders(active_orders, position_yes,
                                        total_volume, open_orders)
          IN  /\ active_orders' = r.active_orders
              /\ position_yes' = r.position_yes
              /\ total_volume' = r.total_volume
              /\ reconciled' = [tracked |-> active_orders,
                                reported |-> OrderIds(open_orders),
                                position_before |-> position_yes,
                                filled_orders |-> r.filled_orders]
              /\ fills' = AddFills(fills, r)
    /\ pc' = next_phase(pc)
    /\ UNCHANGED <<cfg, exchange, next_id, mid_price, target_grid, orders,
                   placed, raised, args, result, realized_pnl>>
    /\ UNCHANGED mainvars

\* every rung is found missing, tracked or not
IsMissingAlways(target_order, active) == TRUE

\* no rung is ever found missing
IsMissingNever(target_order, active) == FALSE

\* a rung is missing when no tracked order at all has its price
IsMissingAnySide(target_order, active) ==
    target_order.price \notin {a.price : a \in active}

\* run_cycle: "target_price not in active_buy_prices" for a BUY rung,
\* "target_price not in active_sell_prices" for a SELL rung
IsMissing(target_order, active) ==
    LET active_buy_prices == {o.price : o \in {a \in active : a.side = BUY}}
        active_sell_prices == {o.price : o \in {a \in active : a.side # BUY}}
    IN  IF target_order.side = BUY
        THEN target_order.price \notin active_buy_prices
        ELSE target_order.price \notin active_sell_prices

\* a planning step that cancels the tracked orders that are off the target
\* grid
PlanMissingCancelling ==
    /\ pc = "plan"
    /\ LET grid == generate_range_grid_orders(cfg, position_yes, mid_price)
           Missing(target_order) == IsMissing(target_order, active_orders)
           missing == SelectSeq(grid, Missing)
           OnGrid(o) == \E i \in DOMAIN grid :
                           grid[i].side = o.side /\ grid[i].price = o.price
           off_grid == {o \in active_orders : ~OnGrid(o)}
       IN  /\ target_grid' = grid
           /\ orders' = missing
           /\ active_orders' = active_orders \ off_grid
           /\ exchange' = exchange \ off_grid
           /\ pc' = IF missing = <<>> THEN "done" ELSE next_phase(pc)
    /\ UNCHANGED <<cfg, position_yes, total_volume, next_id, mid_price,
                   reconciled, placed, raised, args, result, realized_pnl,
                   fills>>
    /\ UNCHANGED mainvars

\* run_cycle: the target grid and the orders missing from it.  The position
\* refresh before it assigns get_current_positions()[0], which is
\* self.position_yes itself, so position_yes is unchanged
PlanMissing ==
    /\ pc = "plan"
    /\ LET grid == generate_range_grid_orders(cfg, position_yes, mid_price)
           Missing(target_order) == IsMissing(target_order, active_orders)
           missing == SelectSeq(grid, Missing)
       IN  /\ target_grid' = grid
           /\ orders' = missing
           /\ pc' = IF missing = <<>> THEN "done" ELSE next_phase(pc)
    /\ UNCHANGED <<cfg, active_orders, position_yes, total_volume, exchange,
                   next_id, mid_price, reconciled, placed, raised, args,
                   result, realized_pnl, fills>>
    /\ UNCHANGED mainvars

\* a placement loop that gives up at the first order that is not placed
remaining_if_placed(todo, returned) ==
    IF returned = 0 THEN <<>> ELSE Tail(todo)

\* the orders the placement loop goes on with after place_order returned:
\* the for loop takes the next order whatever the result was
remaining_orders(todo, returned) == Tail(todo)

\* run_cycle: place_order for the next of the missing orders, while the
\* exchange has handed out at most cap order ids
PlaceOrderUpTo(cap) ==
    /\ pc = "place"
    /\ orders # <<>>
    /\ \E outcomes \in [1..max_retries -> Outcomes] :
          LET order == Head(orders)
              r == place_order(active_orders, exchange, next_id, order.side,
                               order.price, order.size, outcomes)
          IN  /\ r.next_id <= cap + 1
              /\ active_orders' = r.active_orders
              /\ exchange' = r.exchange
              /\ next_id' = r.next_id
              /\ placed' = Append(placed, [side |-> order.side,
                                           price |-> order.price,
                                           size |-> order.size,
                                           returned |-> r.returned])
              /\ orders' = remaining_orders(orders, r.returned)
    /\ pc' = IF orders' = <<>> THEN "done" ELSE "place"
    /\ UNCHANGED <<cfg, position_yes, total_volume, mid_price, reconciled,
                   target_grid, raised, args, result, realized_pnl, fills>>
    /\ UNCHANGED mainvars

PlaceOrder == PlaceOrderUpTo(MaxOrders)

\* run: the cycle has returned, its locals are gone, and the loop sleeps
\* until the next cycle
Sleep ==
    /\ pc = "done"
    /\ pc' = "idle"
    /\ mid_price' = NoPrice
    /\ reconciled' = NoCall
    /\ target_grid' = <<>>
    /\ orders' = <<>>
    /\ placed' = <<>>
    /\ raised' = NoException
    /\ UNCHANGED <<cfg, active_orders, position_yes, total_volume, exchange,
                   next_id, args, result, realized_pnl, fills>>
    /\ UNCHANGED mainvars

\* an open order leaves the exchange: it was filled, or cancelled elsewhere.
\* The bot reads the exchange only in update_active_orders, so an order that
\* leaves during a cycle is seen exactly as one that leaves after it
ExchangeFill ==
    /\ pc = "idle"
    /\ \E o \in exchange : exchange' = exchange \ {o}
    /\ UNCHANGED <<cfg, active_orders, position_yes, total_volume, next_id,
                   pc, mid_price, reconciled, target_grid, orders, placed,
                   raised, args, result, realized_pnl, fills>>
    /\ UNCHANGED mainvars

\* the process is started again: the constructor's "Track state" runs anew,
\* the exchange keeps its orders
Restart ==
    /\ pc = "idle"
    /\ active_orders' = {}
    /\ position_yes' = 0
    /\ total_volume' = 0
    /\ pc' = "idle"
    /\ mid_price' = NoPrice
    /\ reconciled' = NoCall
    /\ target_grid' = <<>>
    /\ orders' = <<>>
    /\ placed' = <<>>
    /\ raised' = NoException
    /\ realized_pnl' = 0
    /\ fills' = <<>>
    /\ UNCHANGED <<cfg, exchange, next_id, args, result>>
    /\ UNCHANGED mainvars

Next ==
    \/ FetchPrice
    \/ UpdateActiveOrders
    \/ PlanMissing
    \/ PlaceOrder
    \/ Sleep
    \/ ExchangeFill
    \/ Restart

Spec == Init /\ [][Next]_vars

(***************************************************************************)
(* SpecLadder: the planning step of run_cycle (generate_range_grid_orders  *)
(* and the search for missing orders) on a constructed bot with any        *)
(* position and any mid price.                                             *)
(***************************************************************************)
LadderConfigChoices ==
    [ grid_levels : {MaxLevels - 1, MaxLevels},
      grid_spacing : SpacingChoices,
      price_precision : PrecisionChoices,
      order_size_usd : {10},
      max_position_usd : {20},
      min_order_size : {10},
      max_order_size : {2500},
      range_min : {300000, 545000},
      range_max : {345000, 700000} ]

PositionChoices == {-5000, 0, 2083, 4000, 25000}

InitLadder ==
    /\ cfg \in {c \in LadderConfigChoices : ConfigAccepted(c)}
    /\ position_yes \in PositionChoices
    /\ mid_price \in Prices
    /\ pc = "plan"
    /\ target_grid = <<>>
    /\ active_orders = {}
    /\ total_volume = 0
    /\ exchange = {}
    /\ next_id = 1
    /\ reconciled = NoCall
    /\ orders = <<>>
    /\ placed = <<>>
    /\ raised = NoException
    /\ realized_pnl = 0
    /\ fills = <<>>
    /\ MainUnused
    /\ args = [price |-> 0]
    /\ result = <<>>

NextLadder == PlanMissing

SpecLadder == InitLadder /\ [][NextLadder]_vars

(***************************************************************************)
(* SpecGenerate: generate_range_grid_orders called twice in a row on a     *)
(* constructed bot with any position and any mid price.                    *)
(***************************************************************************)
\* a call of self.generate_range_grid_orders(mid_price) that leaves
\* new_position in self.position_yes
GenerateCall(new_position) ==
    /\ pc = "plan"
    /\ Len(result) < 2
    /\ result' = Append(result,
                    generate_range_grid_orders(cfg, position_yes, mid_price))
    /\ position_yes' = new_position
    /\ UNCHANGED <<cfg, active_orders, total_volume, exchange, next_id, pc,
                   mid_price, reconciled, target_grid, orders, placed, raised,
                   realized_pnl, fills, args>>
    /\ UNCHANGED mainvars

\* a generator that books one share on the position for each of its rungs
ApplyGenerateBooking ==
    GenerateCall(position_yes
                   + 100 * Len(generate_range_grid_orders(cfg, position_yes,
                                                          mid_price)))

\* the method assigns to no field of self and calls nothing but
\* calculate_order_size, round_price and can_place_order
ApplyGenerate == GenerateCall(position_yes)

NextGenerate == ApplyGenerate

SpecGenerate == InitLadder /\ [][NextGenerate]_vars

(***************************************************************************)
(* SpecAnyPrice: the first cycle of a bot, at any mid price in (0, 1).     *)
(***************************************************************************)
FetchAnyPrice == FetchPriceFrom(Prices)

NextAnyPrice ==
    \/ FetchAnyPrice
    \/ UpdateActiveOrders
    \/ PlanMissing
    \/ PlaceOrder

SpecAnyPrice == Init /\ [][NextAnyPrice]_vars

(***************************************************************************)
(* SpecFaults: the cycles of one bot with every price the sources can     *)
(* give, exceptions raised in the cycle, and the shutdown of run.          *)
(***************************************************************************)
\* the order ids the exchange hands out under SpecFaults
MaxFaultOrders == 3

\* the prices get_current_price gives for a feed that is down, at 0, at 0.5
\* or at 1 and a book that is missing, empty or has a lone ask at 0.005
FaultPrices ==
    { get_current_price(gamma_price, book) :
        gamma_price \in {NoPrice, 0, 500000, Micro},
        book \in {NoBook, Book(<<>>, <<>>), Book(<<>>, <<5000>>)} }

FetchPriceFaults == FetchPriceFrom(FaultPrices)

PlaceOrderFaults == PlaceOrderUpTo(MaxFaultOrders)

\* what a statement of run_cycle can raise: an error, the interrupt of the
\* process, the cancellation of the task
Exceptions == {"Exception", "KeyboardInterrupt", "CancelledError"}

\* what can be raised where the cycle stands: a task is cancelled at an
\* await, and run_cycle awaits in the placement loop only
RaisedAt(at) ==
    IF at = "place" THEN Exceptions ELSE Exceptions \ {"CancelledError"}

\* a run_cycle without handlers
run_cycle_handler_reraise(kind, at) == "propagated"

\* where an exception raised in run_cycle takes the cycle.  The call of
\* update_active_orders has its own "except Exception" and the cycle goes
\* on with the planning; run_cycle's handlers re-raise KeyboardInterrupt
\* and absorb Exception, after which the cycle returns; CancelledError is
\* no Exception and is not caught
run_cycle_handler(kind, at) ==
    IF kind = "Exception"
    THEN IF at = "reconcile" THEN "plan" ELSE "done"
    ELSE "propagated"

\* a statement of the cycle raises (in place_order only outside its own
\* try, whose failures are the outcomes of an attempt)
Raise ==
    /\ pc \in {"idle", "reconcile", "plan", "place"}
    /\ \E kind \in RaisedAt(pc) :
          /\ raised' = [kind |-> kind, at |-> pc]
          /\ pc' = run_cycle_handler(kind, pc)
    /\ UNCHANGED <<cfg, active_orders, position_yes, total_volume, exchange,
                   next_id, mid_price, reconciled, target_grid, orders,
                   placed, args, result, realized_pnl, fills>>
    /\ UNCHANGED mainvars

\* cancel_all_orders when get_open_orders returned open_orders and the
\* exchange cancelled the orders in cancelled (client.cancel raised for the
\* others): with nothing reported it returns before clearing the tracking
cancel_all_orders(active, exch, open_orders, cancelled) ==
    IF open_orders = {}
    THEN [active_orders |-> active, exchange |-> exch]
    ELSE [active_orders |-> {}, exchange |-> exch \ cancelled]

\* run: the interrupt left run_cycle; cancel_all_orders, then the end
Shutdown ==
    /\ pc = "propagated"
    /\ \E open_orders \in get_open_orders(exchange) :
          \E cancelled \in SUBSET open_orders :
             LET r == cancel_all_orders(active_orders, exchange, open_orders,
                                        cancelled)
             IN  /\ active_orders' = r.active_orders
                 /\ exchange' = r.exchange
    /\ pc' = "stopped"
    /\ UNCHANGED <<cfg, position_yes, total_volume, next_id, mid_price,
                   reconciled, target_grid, orders, placed, raised, args,
                   result, realized_pnl, fills>>
    /\ UNCHANGED mainvars

NextFaults ==
    \/ FetchPriceFaults
    \/ UpdateActiveOrders
    \/ PlanMissing
    \/ PlaceOrderFaults
    \/ Raise
    \/ Sleep
    \/ ExchangeFill
    \/ Shutdown

SpecFaults == Init /\ [][NextFaults]_vars

(***************************************************************************)
(* SpecPlan: the planning step of run_cycle on a bot that tracks orders    *)
(* of earlier cycles, placed at this and at another mid price.             *)
(***************************************************************************)
PlanMidChoices == {500000, 540000}

PlanPositionChoices == {0, 2083}

\* the orders a bot may track: both sides at 0.48 and at 0.52, a SELL above
PlanTrackedChoices ==
    { [id |-> 1, side |-> BUY, price |-> 480000, size |-> 2083],
      [id |-> 2, side |-> SELL, price |-> 520000, size |-> 1923],
      [id |-> 3, side |-> BUY, price |-> 520000, size |-> 1923],
      [id |-> 4, side |-> SELL, price |-> 480000, size |-> 2083],
      [id |-> 5, side |-> SELL, price |-> 560000, size |-> 1786] }

InitPlan ==
    /\ cfg \in {c \in BotConfigChoices : ConfigAccepted(c)}
    /\ position_yes \in PlanPositionChoices
    /\ mid_price \in PlanMidChoices
    /\ active_orders \in SUBSET PlanTrackedChoices
    /\ exchange = active_orders
    /\ next_id = Cardinality(PlanTrackedChoices) + 1
    /\ pc = "plan"
    /\ total_volume = 0
    /\ reconciled = NoCall
    /\ target_grid = <<>>
    /\ orders = <<>>
    /\ placed = <<>>
    /\ raised = NoException
    /\ realized_pnl = 0
    /\ fills = <<>>
    /\ MainUnused
    /\ args = [price |-> 0]
    /\ result = <<>>

NextPlan == PlanMissing

SpecPlan == InitPlan /\ [][NextPlan]_vars

(***************************************************************************)
(* SpecPlace: one call of place_order on a bot that tracks one open order. *)
(***************************************************************************)
\* the order tracked, and open on the exchange, before the call
PlaceTracked == {[id |-> 1, side |-> BUY, price |-> 460000, size |-> 2174]}

\* the prices and sizes place_order is called with: in and out of (0, 1),
\* positive and not
PlacePriceChoices == {-10000, 0, 10000, 480000, 990000, Micro, 1500000}
PlaceSizeChoices == {-100, 0, 1, 2083}

InitPlace ==
    /\ args \in [side : {BUY, SELL}, price : PlacePriceChoices,
                  size : PlaceSizeChoices,
                  outcomes : [1..max_retries -> Outcomes]]
    /\ result = <<>>
    /\ cfg = [grid_levels |-> 0]
    /\ active_orders = PlaceTracked
    /\ exchange = PlaceTracked
    /\ next_id = 2
    /\ position_yes = 0
    /\ total_volume = 0
    /\ pc = "call"
    /\ mid_price = NoPrice
    /\ reconciled = NoCall
    /\ target_grid = <<>>
    /\ orders = <<>>
    /\ placed = <<>>
    /\ raised = NoException
    /\ realized_pnl = 0
    /\ fills = <<>>
    /\ MainUnused

\* await self.place_order(side, price, size)
ApplyPlace ==
    /\ pc = "call"
    /\ LET r == place_order(active_orders, exchange, next_id, args.side,
                            args.price, args.size, args.outcomes)
       IN  /\ active_orders' = r.active_orders
           /\ exchange' = r.exchange
           /\ next_id' = r.next_id
           /\ result' = <<[returned |-> r.returned,
                           submitted |-> r.submitted,
                           waited |-> r.waited]>>
    /\ pc' = "returned"
    /\ UNCHANGED <<cfg, position_yes, total_volume, mid_price, reconciled,
                   target_grid, orders, placed, raised, args, realized_pnl,
                   fills>>
    /\ UNCHANGED mainvars

NextPlace == ApplyPlace

SpecPlace == InitPlace /\ [][NextPlace]_vars

(***************************************************************************)
(* SpecPrice: one call of get_current_price.                               *)
(***************************************************************************)
\* what the Gamma feed yields: nothing, or the outcome price of the token
\* (0 and 1 are the prices of a resolved market)
GammaChoices == {NoPrice, 0, 5000, 500000, 540000, Micro}

\* the price lists of the two sides of a book, best price first
BidChoices == {<<>>, <<480000>>, <<100000, 90000>>, <<10000>>}
AskChoices == {<<>>, <<520000>>, <<900000, 950000>>, <<5000>>}

BookChoices ==
    {NoBook} \cup {Book(bids, asks) : bids \in BidChoices, asks \in AskChoices}

InitPrice ==
    /\ args \in [gamma_price : GammaChoices, book : BookChoices]
    /\ result = <<>>
    /\ BotUnused
    /\ MainUnused

ApplyPrice ==
    /\ result = <<>>
    /\ result' = <<get_current_price(args.gamma_price, args.book)>>
    /\ UNCHANGED <<args, botvars>>
    /\ UNCHANGED mainvars

NextPrice == ApplyPrice

SpecPrice == InitPrice /\ [][NextPrice]_vars

(***************************************************************************)
(* SpecBook: one call of get_order_book, attempt by attempt.               *)
(***************************************************************************)
\* get_order_book's max_retries
book_max_retries == 3

\* what self.client.get_order_book does in one attempt: it raises an
\* Exception, or it returns a book
BookFailed == [ok |-> FALSE, bids |-> <<>>, asks |-> <<>>, raised |-> TRUE]

FetchChoices ==
    {BookFailed}
      \cup {[ok |-> TRUE, bids |-> bids, asks |-> <<>>, raised |-> FALSE] :
              bids \in {<<>>, <<480000>>, <<100000, 90000>>}}

InitBook ==
    /\ args \in [fetches : [0..(book_max_retries - 1) -> FetchChoices]]
    /\ result = <<>>
    /\ pc = "fetch"
    /\ cfg = [grid_levels |-> 0]
    /\ active_orders = {}
    /\ position_yes = 0
    /\ total_volume = 0
    /\ exchange = {}
    /\ next_id = 1
    /\ mid_price = 0
    /\ reconciled = NoCall
    /\ target_grid = <<>>
    /\ orders = <<>>
    /\ placed = <<>>
    /\ raised = NoException
    /\ realized_pnl = 0
    /\ fills = <<>>
    /\ MainUnused

\* the events of the call so far: its fetches, its sleeps, its return
Fetches == SelectSeq(result, LAMBDA e : e.ev = "fetch")

\* the loop variable of "for attempt in range(max_retries)"
BookAttempt == Len(Fetches)

\* a backoff of one second whatever the attempt
wait_time_fixed(attempt) == 1

\* wait_time = 2 ** attempt
wait_time(attempt) == 2 ^ attempt

\* one pass through the try: the fetch returns the book, and the method
\* returns it; or it raises, and the handler goes to sleep before the next
\* attempt, or, at the last attempt, returns None
FetchBook ==
    /\ pc = "fetch"
    /\ BookAttempt < book_max_retries
    /\ LET attempt == BookAttempt
           got == args.fetches[attempt]
           fetched == [ev |-> "fetch", attempt |-> attempt,
                       book |-> Book(got.bids, got.asks), seconds |-> 0,
                       failed |-> got.raised]
           returned(book) == [ev |-> "return", attempt |-> attempt,
                              book |-> book, seconds |-> 0, failed |-> FALSE]
       IN  IF ~got.raised
           THEN /\ result' = result \o <<fetched, returned(fetched.book)>>
                /\ pc' = "returned"
           ELSE IF attempt < book_max_retries - 1
           THEN /\ result' = Append(result, [fetched EXCEPT !.book = NoBook])
                /\ pc' = "sleep"
           ELSE /\ result' = result \o <<[fetched EXCEPT !.book = NoBook],
                                         returned(NoBook)>>
                /\ pc' = "returned"
    /\ UNCHANGED <<cfg, active_orders, position_yes, total_volume, exchange,
                   next_id, mid_price, reconciled, target_grid, orders, placed,
                   raised, realized_pnl, fills, args>>
    /\ UNCHANGED mainvars

\* time.sleep(wait_time), and the loop takes the next attempt
BookBackoff ==
    /\ pc = "sleep"
    /\ result' = Append(result, [ev |-> "sleep", attempt |-> BookAttempt - 1,
                                 book |-> NoBook,
                                 seconds |-> wait_time(BookAttempt - 1),
                                 failed |-> FALSE])
    /\ pc' = "fetch"
    /\ UNCHANGED <<cfg, active_orders, position_yes, total_volume, exchange,
                   next_id, mid_price, reconciled, target_grid, orders, placed,
                   raised, realized_pnl, fills, args>>
    /\ UNCHANGED mainvars

NextBook ==
    \/ FetchBook
    \/ BookBackoff

SpecBook == InitBook /\ [][NextBook]_vars

\* the call is never left waiting for ever: time.sleep returns, and the
\* client's call returns or raises
SpecBookFair == SpecBook /\ WF_vars(NextBook)

(***************************************************************************)
(* SpecComplete: the cycles of one bot while the mid price stays where it  *)
(* is, no order leaves the exchange, and a placement succeeds in the end.  *)
(***************************************************************************)
\* at most MaxLost responses of the exchange are lost in a run
MaxLost == 1

\* the position the bot holds: none, or the shares of one filled BUY order
\* of an earlier cycle
CompletePositionChoices == {0, 2083}

InitComplete ==
    /\ cfg \in {c \in BotConfigChoices : ConfigAccepted(c)}
    /\ position_yes \in CompletePositionChoices
    /\ active_orders = {}
    /\ total_volume = 0
    /\ exchange = {}
    /\ next_id = 1
    /\ pc = "idle"
    /\ mid_price = NoPrice
    /\ reconciled = NoCall
    /\ target_grid = <<>>
    /\ orders = <<>>
    /\ placed = <<>>
    /\ raised = NoException
    /\ realized_pnl = 0
    /\ fills = <<>>
    /\ MainUnused
    /\ args = [price |-> 0]
    /\ result = <<>>

FetchFixedPrice == FetchPriceFrom(MidChoices)

\* the orders open on the exchange that the bot does not track
NotTracked(active, exch) == exch \ active

\* run_cycle: place_order for the next of the missing orders, while the
\* responses lost so far are at most max_lost
PlaceOrderLosing(max_lost) ==
    /\ pc = "place"
    /\ orders # <<>>
    /\ \E outcomes \in [1..max_retries -> Outcomes] :
          LET order == Head(orders)
              r == place_order(active_orders, exchange, next_id, order.side,
                               order.price, order.size, outcomes)
          IN  /\ Cardinality(NotTracked(r.active_orders, r.exchange))
                    <= max_lost
              /\ active_orders' = r.active_orders
              /\ exchange' = r.exchange
              /\ next_id' = r.next_id
              /\ placed' = Append(placed, [side |-> order.side,
                                           price |-> order.price,
                                           size |-> order.size,
                                           returned |-> r.returned])
              /\ orders' = remaining_orders(orders, r.returned)
    /\ pc' = IF orders' = <<>> THEN "done" ELSE "place"
    /\ UNCHANGED <<cfg, position_yes, total_volume, mid_price, reconciled,
                   target_grid, raised, args, result, realized_pnl, fills>>
    /\ UNCHANGED mainvars

PlaceOrderComplete == PlaceOrderLosing(MaxLost)

\* a call of place_order that returns an order id
PlaceSucceeds ==
    /\ PlaceOrderComplete
    /\ placed'[Len(placed')].returned # 0

NextComplete ==
    \/ FetchFixedPrice
    \/ UpdateActiveOrders
    \/ PlanMissing
    \/ PlaceOrderComplete
    \/ Sleep

\* run starts the next cycle for ever, every statement of a cycle returns,
\* and a placement that is attempted again and again succeeds in the end
SpecComplete ==
    /\ InitComplete
    /\ [][NextComplete]_vars
    /\ WF_vars(NextComplete)
    /\ SF_vars(PlaceSucceeds)

(***************************************************************************)
(* SpecMoving: the cycles of one bot while the mid price moves from one    *)
(* cycle to the next and open orders are filled.                           *)
(***************************************************************************)
\* the exchange opens at most MaxMovingOrders orders under SpecMoving
MaxMovingOrders == 3

\* the prices the feed reports, cycle by cycle
MovingMidChoices == {500000, 540000}

FetchMovingPrice == FetchPriceFrom(MovingMidChoices)

PlaceOrderMoving == PlaceOrderUpTo(MaxMovingOrders)

NextMoving ==
    \/ FetchMovingPrice
    \/ UpdateActiveOrders
    \/ PlanMissing
    \/ PlaceOrderMoving
    \/ Sleep
    \/ ExchangeFill

SpecMoving == Init /\ [][NextMoving]_vars

(***************************************************************************)
(* SpecListing: the cycles of one bot whose listing of the open orders can *)
(* fail, approach by approach.                                             *)
(***************************************************************************)
\* the exchange opens at most MaxListingOrders orders under SpecListing
MaxListingOrders == 3

\* what a call of self.client.get_orders does in each of the three
\* approaches of get_open_orders: it raises, or it answers
ListingChoices == [1..3 -> {"raises", "answers"}]

\* a listing that answers with the open orders whatever the calls did
list_open_orders_answering(approaches, exch) == exch

\* get_open_orders: the first two approaches return a list that is not
\* empty; the third returns the orders of the token, empty or not; an
\* approach that raises is passed over, and after the third comes
\* "return []"
list_open_orders(approaches, exch) ==
    IF approaches[1] = "answers" /\ exch # {} THEN exch
    ELSE IF approaches[2] = "answers" /\ exch # {} THEN exch
    ELSE IF approaches[3] = "answers" THEN exch
    ELSE {}

\* run_cycle: filled_orders = self.update_active_orders(), with the
\* outcome of the three approaches of its get_open_orders kept in result
UpdateActiveOrdersListing ==
    /\ pc = "reconcile"
    /\ \E approaches \in ListingChoices :
          LET open_orders == list_open_orders(approaches, exchange)
              r == update_active_orders(active_orders, position_yes,
                                        total_volume, open_orders)
          IN  /\ active_orders' = r.active_orders
              /\ position_yes' = r.position_yes
              /\ total_volume' = r.total_volume
              /\ reconciled' = [tracked |-> active_orders,
                                reported |-> OrderIds(open_orders),
                                position_before |-> position_yes,
                                filled_orders |-> r.filled_orders]
              /\ fills' = AddFills(fills, r)
              /\ result' = <<approaches>>
    /\ pc' = next_phase(pc)
    /\ UNCHANGED <<cfg, exchange, next_id, mid_price, target_grid, orders,
                   placed, raised, args, realized_pnl>>
    /\ UNCHANGED mainvars

PlaceOrderListing == PlaceOrderUpTo(MaxListingOrders)

NextListing ==
    \/ FetchPrice
    \/ UpdateActiveOrdersListing
    \/ PlanMissing
    \/ PlaceOrderListing
    \/ Sleep
    \/ ExchangeFill

SpecListing == Init /\ [][NextListing]_vars

(***************************************************************************)
(* SpecCancel: one call of cancel_all_orders, statement by statement, on a *)
(* bot whose tracked orders and whose open orders are any of three.        *)
(***************************************************************************)
\* the orders the bot may track and the exchange may hold open
CancelOrderChoices ==
    { [id |-> 1, side |-> BUY, price |-> 480000, size |-> 2083],
      [id |-> 2, side |-> SELL, price |-> 520000, size |-> 1923],
      [id |-> 3, side |-> BUY, price |-> 460000, size |-> 2174] }

InitCancel ==
    /\ active_orders \in SUBSET CancelOrderChoices
    /\ exchange \in SUBSET CancelOrderChoices
    /\ args = [tracked |-> active_orders, open |-> exchange]
    /\ next_id = Cardinality(CancelOrderChoices) + 1
    /\ pc = "cancel_all"
    /\ result = <<>>
    /\ orders = <<>>
    /\ cfg = [grid_levels |-> 0]
    /\ position_yes = 0
    /\ total_volume = 0
    /\ mid_price = NoPrice
    /\ reconciled = NoCall
    /\ target_grid = <<>>
    /\ placed = <<>>
    /\ raised = NoException
    /\ realized_pnl = 0
    /\ fills = <<>>
    /\ MainUnused

\* open_orders = self.get_open_orders(); "if not open_orders: return".
\* orders holds the ids of the orders the loop has still to go through
FetchOpenOrders ==
    /\ pc = "cancel_all"
    /\ \E approaches \in ListingChoices :
          LET open_orders == list_open_orders(approaches, exchange)
          IN  /\ result' = <<[ev |-> "list", ids |-> OrderIds(open_orders)]>>
              /\ orders' = SortedIds(OrderIds(open_orders))
              /\ pc' = IF open_orders = {} THEN "returned" ELSE "cancelling"
    /\ UNCHANGED <<cfg, active_orders, position_yes, total_volume, exchange,
                   next_id, mid_price, reconciled, target_grid, placed,
                   raised, realized_pnl, fills, args>>
    /\ UNCHANGED mainvars

\* one pass of "for order in open_orders": self.client.cancel(order_id)
\* cancels the order, or raises an Exception that the try of the loop body
\* absorbs
CancelNext ==
    /\ pc = "cancelling"
    /\ orders # <<>>
    /\ \E ok \in BOOLEAN :
          /\ exchange' = IF ok THEN {o \in exchange : o.id # Head(orders)}
                         ELSE exchange
          /\ result' = Append(result, [ev |-> "cancel", id |-> Head(orders),
                                       ok |-> ok])
    /\ orders' = Tail(orders)
    /\ UNCHANGED <<cfg, active_orders, position_yes, total_volume, next_id,
                   pc, mid_price, reconciled, target_grid, placed, raised,
                   realized_pnl, fills, args>>
    /\ UNCHANGED mainvars

CancelRequests == SelectSeq(result, LAMBDA e : e.ev = "cancel")

\* failed_count
FailedCount == Len(SelectSeq(CancelRequests, LAMBDA e : ~e.ok))

\* a tracking that is cleared only when every cancellation succeeded
clear_tracking_if_all_cancelled(active, failed_count) ==
    IF failed_count > 0 THEN active ELSE {}

\* self.active_orders.clear(), after the report of failed_count
clear_tracking(active, failed_count) == {}

\* the statements after the loop, and the return
ClearTracking ==
    /\ pc = "cancelling"
    /\ orders = <<>>
    /\ active_orders' = clear_tracking(active_orders, FailedCount)
    /\ pc' = "returned"
    /\ UNCHANGED <<cfg, position_yes, total_volume, exchange, next_id,
                   mid_price, reconciled, target_grid, orders, placed, raised,
                   realized_pnl, fills, args, result>>
    /\ UNCHANGED mainvars

NextCancel ==
    \/ FetchOpenOrders
    \/ CancelNext
    \/ ClearTracking

SpecCancel == InitCancel /\ [][NextCancel]_vars

(***************************************************************************)
(* SpecMain: the process.  main constructs one bot for each configured     *)
(* token, runs PolymarketGridBot.run for a single token and                *)
(* MultiTokenGridBot.run for several, and the run ends in a shutdown.      *)
(* At most one interruption reaches the process.                           *)
(***************************************************************************)
\* the exchange opens at most MaxMainOrders orders, of all tokens together,
\* under SpecMain
MaxMainOrders == 3

\* the configurations of the tokens: two that the constructor accepts
ConfigA ==
    [ grid_levels |-> 1, grid_spacing |-> 20000, price_precision |-> 3,
      order_size_usd |-> 10, max_position_usd |-> 20, min_order_size |-> 10,
      max_order_size |-> 1000000, range_min |-> 300000, range_max |-> 700000 ]

ConfigB == [ConfigA EXCEPT !.grid_spacing = 10000, !.price_precision = 2]

\* and one for each bound of the constructor, violated
BadConfigs ==
    { [ConfigA EXCEPT !.grid_spacing = 0],
      [ConfigA EXCEPT !.grid_spacing = Micro],
      [ConfigA EXCEPT !.order_size_usd = 0],
      [ConfigA EXCEPT !.grid_levels = 0],
      [ConfigA EXCEPT !.max_position_usd = 0],
      [ConfigA EXCEPT !.range_min = 0],
      [ConfigA EXCEPT !.range_max = Micro],
      [ConfigA EXCEPT !.range_min = 700000],
      [ConfigA EXCEPT !.price_precision = 1] }

\* bot_configs: one token, or two
BotConfigLists ==
    {<<c>> : c \in {ConfigA} \cup BadConfigs}
      \cup {<<ConfigA, c>> : c \in {ConfigB} \cup BadConfigs}
      \cup {<<c, ConfigB>> : c \in BadConfigs}

\* "Track state" of the constructor, and the cycle of the bot: where it
\* stands, its mid_price and orders, whether the bot has been called in
\* this pass (ran) and whether that cycle ended on an exception (failed)
NewBot(c) ==
    [ cfg |-> c, active_orders |-> {}, position_yes |-> 0, total_volume |-> 0,
      realized_pnl |-> 0, exchange |-> {}, next_id |-> 1, pc |-> "idle",
      mid_price |-> NoPrice, orders |-> <<>>, failed |-> FALSE,
      ran |-> FALSE ]

InitMain ==
    /\ bot_configs \in BotConfigLists
    /\ bots = <<>>
    /\ main_pc = "construct"
    /\ turn = 1
    /\ startup_io = <<>>
    /\ escaped = NoException
    /\ cancel_log = <<>>
    /\ args = [price |-> 0]
    /\ result = <<>>
    /\ BotUnused

\* how the constructor gets its API credentials without credentials in
\* the environment: derived over the network, or not at all (it raises)
CredentialChoices == {"derived", "failed"}

\* the network calls of one constructor after its validation:
\* create_or_derive_api_creds, and get_simplified_markets of
\* _load_market_info
constructor_io(i, creds) ==
    <<[bot |-> i, call |-> "create_or_derive_api_creds"]>>
    \o (IF creds = "failed" THEN <<>>
        ELSE <<[bot |-> i, call |-> "get_simplified_markets"]>>)

\* main, MultiTokenGridBot.__init__: the bot of the next configuration is
\* constructed.  Its constructor validates first and raises before it does
\* anything else; an exception of the constructor ends the process
Construct ==
    /\ main_pc = "construct"
    /\ \E creds \in CredentialChoices :
          LET c == bot_configs[turn]
              v == [accepted |-> ConfigAccepted(c),
                    io |-> IF ConfigAccepted(c)
                           THEN constructor_io(turn, creds) ELSE <<>>]
              built == v.accepted /\ creds # "failed"
          IN  /\ startup_io' = startup_io \o v.io
              /\ bots' = IF built THEN Append(bots, NewBot(c)) ELSE bots
              /\ escaped' = IF built THEN escaped
                            ELSE [kind |-> IF v.accepted THEN "Exception"
                                           ELSE "ValueError",
                                  at |-> "construct"]
              /\ main_pc' = IF ~built THEN "crashed"
                            ELSE IF turn = Len(bot_configs) THEN "loop"
                            ELSE "construct"
              /\ turn' = IF built /\ turn < Len(bot_configs) THEN turn + 1
                         ELSE IF built THEN 1 ELSE turn
    /\ UNCHANGED <<bot_configs, cancel_log, args, result>>
    /\ UNCHANGED botvars

\* the prices the feed reports under SpecMain
MainMidChoices == {500000}

\* the bot whose turn it is in the loop over the bots
Bot == bots[turn]

\* More than one configured token: main runs MultiTokenGridBot
MultiMode == Len(bot_configs) > 1

\* bot.run_cycle up to the price checks
BotFetchPrice ==
    /\ main_pc = "loop"
    /\ Bot.pc = "idle"
    /\ \E price \in MainMidChoices \cup {NoPrice} :
          bots' = [bots EXCEPT ![turn] =
                     [@ EXCEPT !.mid_price = price,
                               !.ran = TRUE,
                               !.pc = IF PriceRejected(price) THEN "done"
                                      ELSE next_phase("idle")]]
    /\ UNCHANGED <<bot_configs, main_pc, turn, startup_io, escaped,
                   cancel_log, args, result>>
    /\ UNCHANGED botvars

\* bot.run_cycle: filled_orders = self.update_active_orders()
BotUpdateActiveOrders ==
    /\ main_pc = "loop"
    /\ Bot.pc = "reconcile"
    /\ \E open_orders \in get_open_orders(Bot.exchange) :
          LET r == update_active_orders(Bot.active_orders, Bot.position_yes,
                                        Bot.total_volume, open_orders)
          IN  bots' = [bots EXCEPT ![turn] =
                         [@ EXCEPT !.active_orders = r.active_orders,
                                   !.position_yes = r.position_yes,
                                   !.total_volume = r.total_volume,
                                   !.pc = next_phase("reconcile")]]
    /\ UNCHANGED <<bot_configs, main_pc, turn, startup_io, escaped,
                   cancel_log, args, result>>
    /\ UNCHANGED botvars

\* bot.run_cycle: the target grid and the orders missing from it
BotPlanMissing ==
    /\ main_pc = "loop"
    /\ Bot.pc = "plan"
    /\ LET grid == generate_range_grid_orders(Bot.cfg, Bot.position_yes,
                                              Bot.mid_price)
           Missing(target_order) == IsMissing(target_order, Bot.active_orders)
           missing == SelectSeq(grid, Missing)
       IN  bots' = [bots EXCEPT ![turn] =
                      [@ EXCEPT !.orders = missing,
                                !.pc = IF missing = <<>> THEN "done"
                                       ELSE next_phase("plan")]]
    /\ UNCHANGED <<bot_configs, main_pc, turn, startup_io, escaped,
                   cancel_log, args, result>>
    /\ UNCHANGED botvars

\* the number of orders the exchange has opened for the bots
RECURSIVE OpenedBy(_)
OpenedBy(bs) ==
    IF bs = <<>> THEN 0 ELSE (Head(bs).next_id - 1) + OpenedBy(Tail(bs))

\* bot.run_cycle: place_order for the next of the missing orders
BotPlaceOrder ==
    /\ main_pc = "loop"
    /\ Bot.pc = "place"
    /\ Bot.orders # <<>>
    /\ \E outcomes \in [1..max_retries -> Outcomes] :
          LET order == Head(Bot.orders)
              r == place_order(Bot.active_orders, Bot.exchange, Bot.next_id,
                               order.side, order.price, order.size, outcomes)
              todo == remaining_orders(Bot.orders, r.returned)
          IN  /\ OpenedBy(bots) + (r.next_id - Bot.next_id) <= MaxMainOrders
              /\ bots' = [bots EXCEPT ![turn] =
                            [@ EXCEPT !.active_orders = r.active_orders,
                                      !.exchange = r.exchange,
                                      !.next_id = r.next_id,
                                      !.orders = todo,
                                      !.pc = IF todo = <<>> THEN "done"
                                             ELSE "place"]]
    /\ UNCHANGED <<bot_configs, main_pc, turn, startup_io, escaped,
                   cancel_log, args, result>>
    /\ UNCHANGED botvars

\* the cycle of the bot is over.  run_all_cycles goes on with the next
\* bot; after the last one (or the only one) the loop of run sleeps
CycleReturn ==
    /\ main_pc = "loop"
    /\ Bot.pc = "done"
    /\ bots' = [bots EXCEPT ![turn] =
                  [@ EXCEPT !.pc = "idle", !.mid_price = NoPrice,
                            !.orders = <<>>]]
    /\ turn' = IF turn < Len(bots) THEN turn + 1 ELSE turn
    /\ main_pc' = IF turn < Len(bots) THEN "loop" ELSE "sleep"
    /\ UNCHANGED <<bot_configs, startup_io, escaped, cancel_log, args,
                   result>>
    /\ UNCHANGED botvars

\* run: the sleep is over and the next pass over the bots begins
NextPass ==
    /\ main_pc = "sleep"
    /\ main_pc' = "loop"
    /\ turn' = 1
    /\ bots' = [i \in DOMAIN bots |->
                  [bots[i] EXCEPT !.ran = FALSE, !.failed = FALSE]]
    /\ UNCHANGED <<bot_configs, startup_io, escaped, cancel_log, args,
                   result>>
    /\ UNCHANGED botvars

\* an open order of a token leaves the exchange while the process sleeps
MainExchangeFill ==
    /\ main_pc = "sleep"
    /\ \E i \in DOMAIN bots :
          \E o \in bots[i].exchange :
             bots' = [bots EXCEPT ![i].exchange = @ \ {o}]
    /\ UNCHANGED <<bot_configs, main_pc, turn, startup_io, escaped,
                   cancel_log, args, result>>
    /\ UNCHANGED botvars

\* a run_all_cycles without its try
run_all_cycles_no_handler(kind) == "propagated"

\* run_all_cycles: "except Exception" around bot.run_cycle(): the error
\* is printed and the loop continues with the other bots
run_all_cycles_handler(kind) ==
    IF kind = "Exception" THEN "done" ELSE "propagated"

\* where an exception that left run_cycle takes the cycle of the bot:
\* PolymarketGridBot.run calls run_cycle with no handler of its own
cycle_caller_handler(kind) ==
    IF MultiMode THEN run_all_cycles_handler(kind) ELSE "propagated"

\* the handlers of run (of either class): the interruption signals start
\* the shutdown, any other exception is a fatal error
run_handler(kind) ==
    IF kind \in {"KeyboardInterrupt", "CancelledError"} THEN "interrupted"
    ELSE "fatal"

\* the bot when an exception has left its run_cycle and the loop of run:
\* the locals of the cycle are gone
Unwound(bot) ==
    [bot EXCEPT !.pc = "idle", !.mid_price = NoPrice, !.orders = <<>>,
                !.ran = TRUE]

\* a statement of run_cycle raises: inside its try (the price fetch, the
\* reconciliation, the planning, the placement loop), or before it, at
\* "entry".  What run_cycle does not absorb goes to its caller, and what
\* the caller does not absorb leaves the main loop of run
RaiseInCycle ==
    /\ main_pc = "loop"
    /\ \E at \in {"entry", "idle", "reconcile", "plan", "place"} :
       \E kind \in (IF at = "entry" THEN {"Exception", "KeyboardInterrupt"}
                    ELSE RaisedAt(at)) :
          LET inside == IF at = "entry" THEN "propagated"
                        ELSE run_cycle_handler(kind, at)
              outside == IF inside = "propagated"
                         THEN cycle_caller_handler(kind) ELSE inside
              left == outside = "propagated"
          IN  /\ Bot.pc = (IF at = "entry" THEN "idle" ELSE at)
              /\ bots' = [bots EXCEPT ![turn] =
                            IF left THEN Unwound(@)
                            ELSE [@ EXCEPT !.failed = TRUE,
                                           !.ran = TRUE,
                                           !.pc = outside]]
              /\ escaped' = IF left THEN [kind |-> kind, at |-> "cycle"]
                            ELSE escaped
              /\ main_pc' = IF left THEN run_handler(kind) ELSE main_pc
              /\ turn' = IF left THEN 1 ELSE turn
    /\ UNCHANGED <<bot_configs, startup_io, cancel_log, args, result>>
    /\ UNCHANGED botvars

\* a statement of the loop of run outside the cycles raises (the summary,
\* the prints, the clock), or the sleep is interrupted or cancelled
RaiseInLoop ==
    /\ main_pc = "sleep"
    /\ \E kind \in Exceptions :
          /\ escaped' = [kind |-> kind, at |-> "sleep"]
          /\ main_pc' = run_handler(kind)
    /\ turn' = 1
    /\ UNCHANGED <<bot_configs, bots, startup_io, cancel_log, args, result>>
    /\ UNCHANGED botvars

\* the lists get_open_orders can return to cancel_all_orders: the open
\* orders of the token, or [] when every approach to list them raised
get_open_orders_or_nothing(exch) == {exch, {}}

\* run's handler: cancel_all_orders of the bot (single token), or the next
\* call of the loop of cancel_all_bots_orders.  client.cancel succeeds for
\* the orders in cancelled and raises for the others
CancelBotOrders ==
    /\ main_pc \in {"interrupted", "fatal"}
    /\ turn <= Len(bots)
    /\ \E open_orders \in get_open_orders_or_nothing(Bot.exchange) :
       \E cancelled \in SUBSET open_orders :
          LET r == cancel_all_orders(Bot.active_orders, Bot.exchange,
                                     open_orders, cancelled)
          IN  /\ bots' = [bots EXCEPT ![turn] =
                            [@ EXCEPT !.active_orders = r.active_orders,
                                      !.exchange = r.exchange]]
              /\ cancel_log' = Append(cancel_log,
                                 [bot |-> turn,
                                  failed_count |->
                                     Cardinality(open_orders \ cancelled)])
    /\ turn' = turn + 1
    /\ UNCHANGED <<bot_configs, main_pc, startup_io, escaped, args, result>>
    /\ UNCHANGED botvars

\* a handler that returns after the cancel pass whatever it caught
after_cancel_pass_return(kind) == "stopped"

\* what run's handler does after the cancel pass: "raise" for the fatal
\* error; after an interruption run returns
after_cancel_pass(kind) ==
    IF run_handler(kind) = "fatal" THEN "crashed" ELSE "stopped"

\* the cancel pass is over
EndRun ==
    /\ main_pc \in {"interrupted", "fatal"}
    /\ turn > Len(bots)
    /\ main_pc' = after_cancel_pass(escaped.kind)
    /\ UNCHANGED <<bot_configs, bots, turn, startup_io, escaped, cancel_log,
                   args, result>>
    /\ UNCHANGED botvars

NextMain ==
    \/ Construct
    \/ BotFetchPrice
    \/ BotUpdateActiveOrders
    \/ BotPlanMissing
    \/ BotPlaceOrder
    \/ CycleReturn
    \/ NextPass
    \/ MainExchangeFill
    \/ RaiseInCycle
    \/ RaiseInLoop
    \/ CancelBotOrders
    \/ EndRun

SpecMain == InitMain /\ [][NextMain]_vars

(***************************************************************************)
(* Claims about update_active_orders and the position, checked under Spec. *)
(***************************************************************************)
\* update_active_orders has just returned
Reconciled == pc = "plan"

\* the tracked orders the exchange did not report in the last call
Gone == {o \in reconciled.tracked : o.id \notin reconciled.reported}

RECURSIVE SumSizes(_)
SumSizes(S) ==
    IF S = {} THEN 0
    ELSE LET o == CHOOSE x \in S : TRUE IN o.size + SumSizes(S \ {o})

\* C1 (as stated): reconciliation completeness: after update_active_orders
\* returns, the ids in active_orders are exactly the ids the exchange
\* reported as open in that call, also when it reported ids never tracked.
ReconcileEqualsReported ==
    Reconciled => OrderIds(active_orders) = reconciled.reported

\* C1 (amended): after update_active_orders returns, the ids in
\* active_orders are exactly the previously tracked ids that the exchange
\* still reports; reported ids that were never tracked are not taken up.
ReconcileKeepsTrackedAndReported ==
    Reconciled =>
        OrderIds(active_orders) =
            OrderIds(reconciled.tracked) \cap reconciled.reported

\* one tracked order is kept, one is dropped, and the exchange reports an
\* id that was never tracked
ReconcileWitness ==
    /\ Reconciled
    /\ reconciled.reported \ OrderIds(reconciled.tracked) # {}
    /\ OrderIds(reconciled.tracked) \cap reconciled.reported # {}
    /\ Gone # {}

\* C2: fill sign correctness: every tracked order absent from the reported
\* open list adds its size to position_yes when it is a BUY and subtracts
\* it when it is a SELL, yields one fill record with its side, price and
\* size, and is no longer tracked.
FillSignCorrect ==
    Reconciled =>
        /\ position_yes = reconciled.position_before
                            + SumSizes({o \in Gone : o.side = BUY})
                            - SumSizes({o \in Gone : o.side = SELL})
        /\ Len(reconciled.filled_orders) = Cardinality(Gone)
        /\ \A o \in Gone :
              /\ \E i \in DOMAIN reconciled.filled_orders :
                    /\ reconciled.filled_orders[i].side = o.side
                    /\ reconciled.filled_orders[i].price = o.price
                    /\ reconciled.filled_orders[i].size = o.size
              /\ o.id \notin OrderIds(active_orders)
        /\ Cardinality(Gone) = 1 =>
              \A o \in Gone :
                 position_yes - reconciled.position_before =
                    IF o.side = BUY THEN o.size ELSE -o.size

\* one call that found a BUY and a SELL order gone
FillSignWitness ==
    /\ Reconciled
    /\ \E o \in Gone : o.side = BUY
    /\ \E o \in Gone : o.side = SELL

\* C3: long-only position: position_yes is never negative.
LongOnly == position_yes >= 0

\* C13: no duplicate price levels on the exchange: the exchange never holds
\* two open orders of the bot with the same side and the same price.
NoDuplicateOnExchange ==
    \A o1, o2 \in exchange :
       (o1.side = o2.side /\ o1.price = o2.price) => o1.id = o2.id

\* the fill records emitted since the process started, as a set
FillRecords == {fills[i] : i \in DOMAIN fills}

\* C27: one fill per order: each order id the bot placed has at most one
\* fill record and adjusts position_yes at most once, because the order
\* leaves active_orders in the reconciliation that records its fill.
OneFillPerOrder ==
    /\ \A i, j \in DOMAIN fills : i # j => fills[i].id # fills[j].id
    /\ \A i \in DOMAIN fills : fills[i].id \notin OrderIds(active_orders)
    /\ position_yes = SumSizes({f \in FillRecords : f.side = BUY})
                        - SumSizes({f \in FillRecords : f.side = SELL})

\* a reconciliation recorded one fill after an earlier one had recorded
\* another, while a further order stayed tracked
OneFillPerOrderWitness ==
    /\ Reconciled
    /\ Len(reconciled.filled_orders) = 1
    /\ Len(fills) >= 2
    /\ active_orders # {}

RECURSIVE SumValues(_)
SumValues(records) ==
    IF records = <<>> THEN 0
    ELSE Head(records).value + SumValues(Tail(records))

\* C28: volume accounting: total_volume is the sum of size * price over the
\* fill records emitted so far, BUY and SELL fills alike; it never
\* decreases while the process runs; realized_pnl stays at its initial 0.
VolumeAccounting ==
    /\ []( /\ total_volume = SumValues(fills)
            /\ \A i \in DOMAIN fills :
                  fills[i].value = MulMilli(fills[i].size, fills[i].price)
            /\ realized_pnl = 0 )
    /\ [][ Restart \/ (total_volume' >= total_volume /\ realized_pnl' = 0) ]_vars

\* the fills of a BUY and of a SELL order have both been added
VolumeAccountingWitness ==
    /\ \E i \in DOMAIN fills : fills[i].side = BUY
    /\ \E i \in DOMAIN fills : fills[i].side = SELL
    /\ total_volume > 0
    /\ total_volume = SumValues(fills)

(***************************************************************************)
(* Claims about generate_range_grid_orders, checked under SpecLadder.      *)
(***************************************************************************)
\* the planning step has returned
Planned == pc \in {"place", "done"}

Rungs == {target_grid[i] : i \in DOMAIN target_grid}

\* the rounded price of iteration i of the loop of a side
Candidate(side, i) ==
    IF side = BUY
    THEN round_price(BuyBase(cfg, mid_price) - i * cfg.grid_spacing,
                     cfg.price_precision, cfg.grid_spacing)
    ELSE round_price(SellBase(cfg, mid_price) + i * cfg.grid_spacing,
                     cfg.price_precision, cfg.grid_spacing)

\* C4: no-duplicate invariant: no two rungs of a ladder have the same
\* price, and the rung that holds a price comes from the first iteration
\* that rounded to it.
NoDuplicateRungs ==
    Planned =>
        /\ \A i, j \in DOMAIN target_grid :
              i # j => target_grid[i].price # target_grid[j].price
        /\ \A r \in Rungs :
              \A k \in 0..(Abs(r.level) - 1) : Candidate(r.side, k) # r.price

\* a later iteration rounded to the price of a rung and was dropped
NoDuplicateWitness ==
    /\ Planned
    /\ \E r \in Rungs :
          \E k \in (Abs(r.level) + 1)..(cfg.grid_levels - 1) :
             Candidate(r.side, k) = r.price

\* C5: range containment: every BUY rung is in [range_min, mid_price),
\* every SELL rung in (mid_price, range_max].
RangeContainment ==
    Planned =>
        \A r \in Rungs :
           /\ r.side = BUY => (cfg.range_min <= r.price /\ r.price < mid_price)
           /\ r.side = SELL => (mid_price < r.price /\ r.price <= cfg.range_max)

\* a ladder with rungs on both sides that lost a BUY iteration below
\* range_min and a SELL iteration above range_max
RangeContainmentWitness ==
    /\ Planned
    /\ \E r \in Rungs : r.side = BUY
    /\ \E r \in Rungs : r.side = SELL
    /\ \E k \in 0..(cfg.grid_levels - 1) : Candidate(BUY, k) < cfg.range_min
    /\ \E k \in 0..(cfg.grid_levels - 1) : Candidate(SELL, k) > cfg.range_max

\* C6: position suppression: when |position_yes * mid_price| is at least
\* max_position_usd, calculate_order_size returns 0, the ladder is empty
\* and the cycle has no order to place.
PositionSuppression ==
    ( /\ Planned
      /\ Abs(calculate_position_value(position_yes, mid_price))
            >= UsdValue(cfg.max_position_usd) )
      => /\ calculate_order_size(cfg, position_yes, mid_price) = 0
         /\ target_grid = <<>>
         /\ orders = <<>>
         /\ pc = "done"

\* a short position whose value is at the limit
PositionSuppressionWitness ==
    /\ Planned
    /\ position_yes < 0
    /\ Abs(calculate_position_value(position_yes, mid_price))
          >= UsdValue(cfg.max_position_usd)

\* the configuration and mid price of the ladder example
IsLadderExample ==
    /\ mid_price = 500000
    /\ cfg.grid_spacing = 20000
    /\ cfg.grid_levels = 3
    /\ cfg.range_min = 300000
    /\ cfg.range_max = 700000

RungPrices(side) == {r.price : r \in {x \in Rungs : x.side = side}}

\* C11 (as stated): ladder example: mid price 0.50, spacing 0.02, 3 levels and
\* range [0.30, 0.70] give the buy rungs {0.48, 0.46, 0.44} and the sell
\* rungs {0.52, 0.54, 0.56}, whatever the position.
LadderExample ==
    (Planned /\ IsLadderExample) =>
        /\ RungPrices(BUY) = {480000, 460000, 440000}
        /\ RungPrices(SELL) = {520000, 540000, 560000}

\* C11 (amended): in the ladder example the rungs are, in order, the buys
\* 0.48, 0.46, 0.44 and the sells 0.52, 0.54, 0.56 when shares are held and
\* the position value is below max_position_usd; with no shares held there
\* are the three buy rungs only; at the position limit there is no rung.
LadderExampleWithHolding ==
    (Planned /\ IsLadderExample) =>
        LET value == Abs(calculate_position_value(position_yes, mid_price))
            below == value < UsdValue(cfg.max_position_usd)
            prices == [i \in DOMAIN target_grid |-> target_grid[i].price]
            levels == [i \in DOMAIN target_grid |-> target_grid[i].level]
        IN  /\ (below /\ position_yes > 0) =>
                  /\ prices = <<480000, 460000, 440000,
                                520000, 540000, 560000>>
                  /\ levels = <<0, -1, -2, 0, 1, 2>>
                  /\ RungPrices(BUY) = {480000, 460000, 440000}
                  /\ RungPrices(SELL) = {520000, 540000, 560000}
            /\ (below /\ position_yes <= 0) =>
                  prices = <<480000, 460000, 440000>>
            /\ ~below => target_grid = <<>>

\* the example planned with shares held and room below the limit
LadderExampleWitness ==
    /\ Planned
    /\ IsLadderExample
    /\ position_yes > 0
    /\ Len(target_grid) = 6

\* C12: sell suppression: with position_yes <= 0, can_place_order(SELL) is
\* false and the ladder has no SELL rung, so a first cycle (position 0, no
\* tracked order) has only BUY orders to place.
SellSuppression ==
    (Planned /\ position_yes <= 0) =>
        /\ ~can_place_order(cfg, position_yes, SELL, mid_price)
        /\ \A r \in Rungs : r.side = BUY
        /\ \A i \in DOMAIN orders : orders[i].side = BUY

\* a first cycle's plan: no position, no tracked order, and rungs to place
SellSuppressionWitness ==
    /\ pc = "place"
    /\ position_yes = 0
    /\ active_orders = {}
    /\ orders # <<>>

\* C30: level index sign: in every generated ladder each BUY rung has a
\* negative level index and each SELL rung a positive one.
LevelIndexSign ==
    Planned =>
        \A r \in Rungs :
           /\ r.side = BUY => r.level < 0
           /\ r.side = SELL => r.level > 0

\* C7: grid spacing invariant: for every configuration the constructor
\* accepted, every rung price is an exact multiple of grid_spacing.
RungsOnGrid ==
    Planned => \A r \in Rungs : r.price % cfg.grid_spacing = 0

IsTie(price, grid_spacing) == 2 * (price % grid_spacing) = grid_spacing

\* C8: rounding idempotence: round_price applied to its own result, with
\* the same precision and spacing, returns that result again.
RoundingIdempotent ==
    Len(result) = 2 => result[2] = result[1]

\* a price off the grid was rounded, and the result rounded again
RoundingIdempotentWitness ==
    /\ Len(result) = 2
    /\ result[1] # args.price
    /\ args.price % args.grid_spacing # 0

\* C9: round_price snaps to the nearest multiple of the spacing: the three
\* examples of the specification, and in general, when the precision
\* resolves the spacing and the price is not halfway between two multiples,
\* the result is a multiple of the spacing less than half a spacing away.
RoundsToNearestMultiple ==
    Len(result) >= 1 =>
        /\ args = [price |-> 455000, precision |-> 3, grid_spacing |-> 10000]
              => result[1] = 460000
        /\ args = [price |-> 455000, precision |-> 3, grid_spacing |-> 20000]
              => result[1] = 460000
        /\ args = [price |-> 435000, precision |-> 3, grid_spacing |-> 20000]
              => result[1] = 440000
        /\ ( /\ args.precision >= Decimals(args.grid_spacing)
             /\ ~IsTie(args.price, args.grid_spacing) )
              => /\ result[1] % args.grid_spacing = 0
                 /\ 2 * Abs(result[1] - args.price) < args.grid_spacing

\* round_to_grid(0.435, 0.02, 3) has been computed
RoundsToNearestMultipleWitness ==
    /\ Len(result) = 1
    /\ args = [price |-> 435000, precision |-> 3, grid_spacing |-> 20000]
    /\ result[1] # args.price

\* C10: ties round half-up: a price exactly halfway between two adjacent
\* multiples of grid_spacing is rounded to the higher multiple.
TiesRoundHalfUp ==
    ( /\ Len(result) >= 1
      /\ args.precision >= Decimals(args.grid_spacing)
      /\ IsTie(args.price, args.grid_spacing) )
      => result[1] = args.price + args.grid_spacing \div 2

(***************************************************************************)
(* Claims about the missing orders of run_cycle, checked under SpecPlan.   *)
(***************************************************************************)
\* a tracked order with the side and the price of the rung
TrackedAt(rung) ==
    \E a \in active_orders : a.side = rung.side /\ a.price = rung.price

\* a tracked order of the other side with the price of the rung
TrackedAcross(rung) ==
    \E a \in active_orders : a.side # rung.side /\ a.price = rung.price

ToPlace == {orders[i] : i \in DOMAIN orders}

\* C14: missing orders: a rung of the target ladder is in the list of
\* orders to place exactly when no tracked order has its side and its exact
\* price; a tracked order of the other side at that price does not count.
\* The list keeps the order of the ladder.
MissingIffUntracked ==
    Planned =>
        /\ \A r \in Rungs : (r \in ToPlace) <=> ~TrackedAt(r)
        /\ ToPlace \subseteq Rungs
        /\ \A i, j \in DOMAIN orders :
              i < j => \E k, l \in DOMAIN target_grid :
                          /\ k < l
                          /\ target_grid[k] = orders[i]
                          /\ target_grid[l] = orders[j]

\* a plan with a rung left out for a tracked order of its side, and a rung
\* to place although the other side is tracked at its price
MissingIffUntrackedWitness ==
    /\ Planned
    /\ \E r \in Rungs : TrackedAt(r) /\ r \notin ToPlace
    /\ \E r \in Rungs : TrackedAcross(r) /\ r \in ToPlace

(***************************************************************************)
(* Claims about place_order, checked under SpecPlace.                      *)
(***************************************************************************)
PlaceReturned == pc = "returned" /\ Len(result) = 1

PlaceArgsValid == 0 < args.price /\ args.price < Micro /\ args.size > 0

\* C16: bounded placement retry: a call of place_order submits the order at
\* most 2 times, sleeps one second between the two attempts and at no other
\* time, stops at the first response that carries an order id, and returns
\* None after the second failed attempt.
PlacementRetryBounded ==
    PlaceReturned =>
        LET r == result[1]
            first == args.outcomes[1]
            second == args.outcomes[2]
        IN  /\ r.submitted <= 2
            /\ r.waited = IF r.submitted = 2 THEN 1 ELSE 0
            /\ (PlaceArgsValid /\ first = "accepted") =>
                  (r.submitted = 1 /\ r.returned # 0)
            /\ (PlaceArgsValid /\ first # "accepted") =>
                  /\ r.submitted = 2
                  /\ (second = "accepted") <=> (r.returned # 0)
            /\ r.returned # 0 =>
                  /\ r.returned \in OrderIds(active_orders)
                  /\ r.returned \in OrderIds(exchange)
                  /\ r.returned \notin OrderIds(PlaceTracked)

\* both attempts of a valid order failed: two submissions, one wait, None
PlacementRetryWitness ==
    /\ PlaceReturned
    /\ PlaceArgsValid
    /\ args.outcomes[1] # "accepted"
    /\ args.outcomes[2] # "accepted"
    /\ result[1] = [returned |-> 0, submitted |-> 2, waited |-> 1]

\* C18: local validation: place_order with price <= 0, price >= 1 or
\* size <= 0 returns None without an exchange call, without a retry or a
\* wait, and leaves active_orders (and the exchange) as they were.
LocalValidation ==
    ( /\ PlaceReturned
      /\ (args.price <= 0 \/ args.price >= Micro \/ args.size <= 0) )
      => /\ result[1] = [returned |-> 0, submitted |-> 0, waited |-> 0]
         /\ active_orders = PlaceTracked
         /\ exchange = PlaceTracked
         /\ next_id = 2

\* a call with a price in (0, 1) and size 0 that the exchange would accept
LocalValidationWitness ==
    /\ PlaceReturned
    /\ 0 < args.price /\ args.price < Micro
    /\ args.size <= 0
    /\ args.outcomes[1] = "accepted"

\* C38: place_order tracking effect: a call that returns an order id has
\* added exactly one entry to active_orders, with that id and the requested
\* side, price and size; a call that returns None has left active_orders as
\* it was; no call changes position_yes or total_volume.
PlaceTrackingEffect ==
    [][pc = "call" =>
         LET returned == result'[1].returned
             added == active_orders' \ active_orders
         IN  /\ position_yes' = position_yes
             /\ total_volume' = total_volume
             /\ active_orders \subseteq active_orders'
             /\ returned = 0 => active_orders' = active_orders
             /\ returned # 0 =>
                   /\ returned \notin OrderIds(active_orders)
                   /\ added = {[id |-> returned, side |-> args.side,
                                price |-> args.price, size |-> args.size]}
      ]_vars

\* a SELL order was accepted at the second attempt, after a lost response,
\* and is tracked next to the order tracked before
PlaceTrackingWitness ==
    /\ PlaceReturned
    /\ result[1].returned # 0
    /\ args.outcomes[1] = "lost"
    /\ args.side = SELL
    /\ Cardinality(active_orders) = 2
    /\ Cardinality(exchange) = 3

(***************************************************************************)
(* Claims about get_current_price, checked under SpecPrice.                *)
(***************************************************************************)
\* C19: price source fallback: get_current_price returns the feed price
\* when the feed yields one; when the feed yields nothing it returns, from
\* the order book, (bestBid + bestAsk) / 2, or bestBid + 0.005 with bids
\* only, or bestAsk - 0.005 with asks only, or 0.5 for an empty book; a
\* spread above 0.50 does not change the result.
PriceSourceFallback ==
    Len(result) = 1 =>
        LET gamma_price == args.gamma_price
            bids == args.book.bids
            asks == args.book.asks
        IN  /\ gamma_price # NoPrice => result[1] = gamma_price
            /\ (gamma_price = NoPrice /\ args.book.ok) =>
                  result[1] =
                     IF bids # <<>> /\ asks # <<>>
                     THEN (bids[1] + asks[1]) \div 2
                     ELSE IF bids # <<>> THEN bids[1] + 5000
                     ELSE IF asks # <<>> THEN asks[1] - 5000
                     ELSE 500000

(***************************************************************************)
(* Claims about the cycle under exceptions, failed placements and          *)
(* rejected prices, checked under SpecFaults.                              *)
(***************************************************************************)
Interrupts == {"KeyboardInterrupt", "CancelledError"}

\* the exception has left run_cycle
Propagated == pc \in {"propagated", "stopped"}

Attempted ==
    [i \in DOMAIN placed |->
        [side |-> placed[i].side, price |-> placed[i].price,
         size |-> placed[i].size]]

\* the side, price and size of the rungs of a ladder
AsOrders(ladder) ==
    [i \in DOMAIN ladder |->
        [side |-> ladder[i].side, price |-> ladder[i].price,
         size |-> ladder[i].size]]

\* the missing-order list of the cycle: the rungs of the target ladder with
\* no order of their side and price among the orders tracked when the
\* cycle planned, which are the tracked orders not placed in this cycle
MissingAtPlan ==
    LET placed_ids == {placed[i].returned : i \in DOMAIN placed}
        tracked_at_plan == {a \in active_orders : a.id \notin placed_ids}
        Untracked(r) ==
            ~\E a \in tracked_at_plan : a.side = r.side /\ a.price = r.price
    IN  SelectSeq(target_grid, Untracked)

\* an exception ended the cycle before its last statement
CycleCut == raised.kind = "Exception" /\ raised.at # "reconcile"

\* C17: placement failures do not abort the cycle: place_order is called
\* for the rungs of the missing-order list in list order, and a cycle that
\* ends without an exception in run_cycle has called it for every one of
\* them, whether or not earlier calls returned None.
PlacementContinues ==
    pc \in {"place", "done"} =>
        /\ Attempted \o AsOrders(orders) = AsOrders(MissingAtPlan)
        /\ (pc = "done" /\ ~CycleCut) =>
              (orders = <<>> /\ Attempted = AsOrders(MissingAtPlan))

\* a cycle that ended after a failed placement followed by a successful one
PlacementContinuesWitness ==
    /\ pc = "done"
    /\ ~CycleCut
    /\ Len(placed) >= 2
    /\ placed[1].returned = 0
    /\ placed[2].returned # 0

\* run_cycle got no usable price
PriceUnusable(price) == price = NoPrice \/ price <= 0 \/ price >= Micro

\* C20: degraded cycle on a missing price: when get_current_price gives no
\* price, or a price <= 0 or >= 1, the cycle ends at once: no
\* reconciliation, no plan, no placement, and active_orders, position_yes,
\* total_volume and the exchange are as they were.
DegradedCycle ==
    /\ []( (pc = "done" /\ raised = NoException /\ PriceUnusable(mid_price))
             => /\ reconciled = NoCall
                /\ target_grid = <<>>
                /\ orders = <<>>
                /\ placed = <<>> )
    /\ [][ ( /\ pc = "idle"
             /\ pc' # "idle"
             /\ raised' = NoException
             /\ PriceUnusable(mid_price') )
           => /\ pc' = "done"
              /\ UNCHANGED <<active_orders, position_yes, total_volume,
                              exchange, next_id>> ]_vars

\* a cycle ended on the price 0 while a tracked order had left the exchange
DegradedCycleWitness ==
    /\ pc = "done"
    /\ raised = NoException
    /\ mid_price = 0
    /\ active_orders # {}
    /\ active_orders # exchange
    /\ position_yes = 0

(***************************************************************************)
(* Claims about the order of the phases of a cycle, checked under Spec.    *)
(***************************************************************************)
\* the steps from one phase of run_cycle to the next, and back to the loop
PhaseSteps ==
    { <<"idle", "reconcile">>, <<"idle", "done">>, <<"reconcile", "plan">>,
      <<"plan", "place">>, <<"plan", "done">>, <<"place", "done">>,
      <<"done", "idle">> }

\* the rungs place_order has been or will be called for in this cycle
CycleOrders == Attempted \o AsOrders(orders)

\* a rung with the side and the price of the order
RungOf(o, rungs) ==
    {i \in DOMAIN rungs : rungs[i].side = o.side /\ rungs[i].price = o.price}

\* C25: cycle phase ordering: a cycle fetches the price, then reconciles,
\* then generates the ladder and the missing orders, then places; the
\* ladder and the missing orders come from the position and the tracked
\* orders as the reconciliation of the same cycle left them, and an order
\* found gone in the cycle is placed again in the cycle when its rung is
\* still in the ladder.
CyclePhaseOrder ==
    /\ [][ pc' # pc => <<pc, pc'>> \in PhaseSteps ]_vars
    /\ []( (pc \in {"place", "done"} /\ ~PriceUnusable(mid_price)) =>
              /\ position_yes = reconciled.position_before
                                  + SumSizes({o \in Gone : o.side = BUY})
                                  - SumSizes({o \in Gone : o.side = SELL})
              /\ target_grid =
                    generate_range_grid_orders(cfg, position_yes, mid_price)
              /\ CycleOrders = AsOrders(MissingAtPlan)
              /\ \A o \in Gone :
                    RungOf(o, target_grid) # {} =>
                       /\ RungOf(o, CycleOrders) # {}
                       /\ pc = "done" => RungOf(o, Attempted) # {} )

\* a cycle that found a BUY order gone, planned with the position the fill
\* left, and opened a new order at the price of that order
CyclePhaseOrderWitness ==
    /\ pc = "done"
    /\ \E o \in Gone :
          /\ o.side = BUY
          /\ position_yes = reconciled.position_before + o.size
          /\ RungOf(o, target_grid) # {}
          /\ \E i \in DOMAIN placed :
                /\ placed[i].side = o.side
                /\ placed[i].price = o.price
                /\ placed[i].returned # 0
    /\ \E i \in DOMAIN target_grid : target_grid[i].side = SELL

(***************************************************************************)
(* Claims about the prices of the orders of a cycle, checked under         *)
(* SpecAnyPrice.                                                           *)
(***************************************************************************)
\* C29: orders are placed only inside the range: every tracked order, and
\* every order the bot has opened on the exchange, has a price p with
\* range_min <= p <= range_max and 0.01 <= p <= 0.99.
OrdersInsideRange ==
    \A o \in active_orders \cup exchange :
       /\ cfg.range_min <= o.price /\ o.price <= cfg.range_max
       /\ MinPrice <= o.price /\ o.price <= MaxPrice

(***************************************************************************)
(* Claims about the process: construction, the pass over the bots, the     *)
(* shutdown; checked under SpecMain.                                       *)
(***************************************************************************)
\* the cancel pass has called cancel_all_orders for every bot, in list order
CancelPassDone ==
    /\ Len(cancel_log) = Len(bots)
    /\ \A i \in DOMAIN cancel_log : cancel_log[i].bot = i

\* C21: shutdown cancel-all: after an interruption of the multi-token loop
\* cancel_all_orders has been called for every bot in list order, whatever
\* failed for an earlier bot, and when no cancel call failed no order of
\* any token is left open on the exchange.
ShutdownCancelsAll ==
    (MultiMode /\ main_pc = "stopped") =>
        /\ CancelPassDone
        /\ (\A i \in DOMAIN cancel_log : cancel_log[i].failed_count = 0) =>
              \A i \in DOMAIN bots : bots[i].exchange = {}

\* C22: fatal error handling: an exception that leaves the main loop of
\* run, of a single bot or of the multi-token loop, and is no interruption
\* signal, starts the cancel pass; it is re-raised when the pass has called
\* cancel_all_orders for every bot, not before, and the pass always goes on
\* to the raise.
FatalCancelsThenRaises ==
    /\ []( (escaped.kind = "Exception" /\ escaped.at # "construct") =>
              /\ main_pc \in {"fatal", "crashed"}
              /\ main_pc = "crashed" => CancelPassDone
              /\ main_pc = "fatal" => ENABLED (CancelBotOrders \/ EndRun) )
    /\ [][ main_pc = "fatal" =>
              /\ main_pc' \in {"fatal", "crashed"}
              /\ main_pc' = "crashed" => CancelPassDone ]_vars
    /\ [][ (main_pc \in {"loop", "sleep"} /\ escaped'.kind = "Exception") =>
              (main_pc' = "fatal" /\ cancel_log' = <<>>) ]_vars

\* a single bot whose cycle raised an error before its try: its open
\* orders were cancelled, then the error was raised again
FatalCancelsWitness ==
    /\ ~MultiMode
    /\ main_pc = "crashed"
    /\ escaped = [kind |-> "Exception", at |-> "cycle"]
    /\ cancel_log = <<[bot |-> 1, failed_count |-> 0]>>
    /\ bots[1].next_id > 1
    /\ bots[1].exchange = {}

\* the bounds of the constructor as the specification states them
ViolatesBounds(c) ==
    \/ c.grid_spacing <= 0 \/ c.grid_spacing >= Micro
    \/ c.order_size_usd <= 0
    \/ c.grid_levels <= 0
    \/ c.max_position_usd <= 0
    \/ ~(0 < c.range_min /\ c.range_min < c.range_max /\ c.range_max < Micro)
    \/ c.price_precision < Decimals(c.grid_spacing)

\* C23: config validation fails fast: a configuration that violates a
\* bound makes the constructor raise, with one token and with several; no
\* bot is built from it or from a changed copy of it, and the process has
\* made no network call when the error is raised.
ConfigFailsFast ==
    /\ \A i \in DOMAIN bots : bots[i].cfg = bot_configs[i]
    /\ \A i \in DOMAIN bots : ~ViolatesBounds(bot_configs[i])
    /\ (main_pc # "construct" /\ \E i \in DOMAIN bot_configs :
                                     ViolatesBounds(bot_configs[i]))
          => (main_pc = "crashed" /\ escaped.at = "construct")
    /\ (main_pc = "crashed" /\ escaped.kind = "ValueError") =>
          startup_io = <<>>

\* the fields of a bot that only its own cycle may change
Ledger(bot) == <<bot.active_orders, bot.position_yes, bot.total_volume>>

\* C24: sequential, isolated instruments: only the bot whose turn it is
\* is ever inside a cycle; a step of its cycle, failing or not, leaves
\* active_orders, position_yes and total_volume of every other bot alone;
\* an error in the cycle of one bot does not leave the loop, and when the
\* pass is over the cycle of every bot has run.
SequentialIsolated ==
    /\ []( \A i \in DOMAIN bots :
              bots[i].pc # "idle" => (i = turn /\ main_pc = "loop") )
    /\ [][ main_pc = "loop" =>
              \A j \in DOMAIN bots :
                 j # turn => Ledger(bots'[j]) = Ledger(bots[j]) ]_vars
    /\ []( (MultiMode /\ main_pc = "loop") =>
              \A i \in DOMAIN bots : i < turn => bots[i].ran )
    /\ []( (MultiMode /\ main_pc = "sleep") =>
              \A i \in DOMAIN bots : bots[i].ran )
    /\ []( (MultiMode /\ escaped.at = "cycle") =>
              escaped.kind \in {"KeyboardInterrupt", "CancelledError"} )

\* a pass in which the cycle of the first bot failed and opened nothing,
\* and the cycle of the second bot ran and opened an order
SequentialIsolatedWitness ==
    /\ MultiMode
    /\ main_pc = "sleep"
    /\ bots[1].failed
    /\ bots[1].next_id = 1
    /\ bots[2].ran
    /\ ~bots[2].failed
    /\ bots[2].active_orders # {}

(***************************************************************************)
(* Claims about get_order_book, checked under SpecBookFair.                *)
(***************************************************************************)
Sleeps == SelectSeq(result, LAMBDA e : e.ev = "sleep")

\* the first attempt whose fetch does not raise, 3 when all three raise
FirstGoodFetch ==
    IF \E k \in 0..2 : ~args.fetches[k].raised
    THEN CHOOSE k \in 0..2 :
            /\ ~args.fetches[k].raised
            /\ \A j \in 0..(k - 1) : args.fetches[j].raised
    ELSE 3

\* the state of a call that has returned is as the retry rule wants it
BookCallAsRuled ==
    LET last == result[Len(result)]
        good == FirstGoodFetch
    IN  /\ last.ev = "return"
        /\ Len(Fetches) = (IF good < 3 THEN good + 1 ELSE 3)
        /\ last.book = (IF good < 3
                        THEN Book(args.fetches[good].bids,
                                  args.fetches[good].asks)
                        ELSE NoBook)
        /\ [i \in DOMAIN Sleeps |-> Sleeps[i].seconds]
             = SubSeq(<<1, 2>>, 1, IF good < 2 THEN good ELSE 2)
        /\ result[Len(result) - 1].ev = "fetch"

PositionCap ==
    \A mid \in MidChoices :
       calculate_position_value(position_yes, mid)
          <= UsdValue(cfg.max_position_usd)

(***************************************************************************)
(* Claims about the completion of the grid, checked under SpecComplete.    *)
(***************************************************************************)
\* the target ladder of the bot at the mid price of the feed
FixedLadder ==
    LET mid == CHOOSE m \in MidChoices : TRUE
        ladder == generate_range_grid_orders(cfg, position_yes, mid)
    IN  {ladder[i] : i \in DOMAIN ladder}

\* every rung of the target ladder has a tracked order of its side and price
GridComplete ==
    \A rung \in FixedLadder :
       \E o \in active_orders : o.side = rung.side /\ o.price = rung.price

\* C33: grid completion: with the mid price fixed, no order leaving the
\* exchange, a position that permits orders and placements that succeed in
\* the end, the grid is complete after finitely many cycles and stays
\* complete, and once it is complete no further order is placed.
GridCompletion ==
    /\ <>[]GridComplete
    /\ [][GridComplete =>
            (exchange' = exchange /\ active_orders' = active_orders
               /\ next_id' = next_id)]_vars

\* a cycle has found the grid, with rungs on both sides, complete, and
\* has placed nothing
GridCompletionWitness ==
    /\ GridComplete
    /\ pc = "done"
    /\ target_grid # <<>>
    /\ placed = <<>>
    /\ \E o \in active_orders : o.side = SELL
    /\ \E o \in active_orders : o.side = BUY

(***************************************************************************)
(* Claims about the tracked orders while the mid price moves, checked      *)
(* under SpecMoving.                                                       *)
(***************************************************************************)
\* C34: the local index has no duplicate level: active_orders never holds
\* two orders with different ids and the same side and price.
NoDuplicateTracked ==
    \A o1, o2 \in active_orders :
       (o1.side = o2.side /\ o1.price = o2.price) => o1.id = o2.id

\* the bot tracks orders placed at both mid prices, and at one price a BUY
\* and a SELL order
NoDuplicateTrackedWitness ==
    /\ \E o1, o2 \in active_orders :
          o1.side # o2.side /\ o1.price = o2.price
    /\ Cardinality(active_orders) >= 2
    /\ pc = "done"
    /\ mid_price = 540000

\* the highest price among the tracked BUY orders is below the lowest among
\* the tracked SELL orders
BuysBelowSells ==
    \A b, s \in active_orders :
       (b.side = BUY /\ s.side = SELL) => b.price < s.price

\* C36: no self-crossing orders: every tracked BUY order is priced strictly
\* below every tracked SELL order, also when the mid price moves between
\* cycles.
NoSelfCrossing == BuysBelowSells

(***************************************************************************)
(* Claims about a failed listing of the open orders, checked under         *)
(* SpecListing.                                                            *)
(***************************************************************************)
\* update_active_orders has just returned from a call in which every
\* approach of get_open_orders raised
ListingFailed ==
    /\ pc = "plan"
    /\ result = <<[i \in 1..3 |-> "raises"]>>

\* the size of the order with its sign: a BUY adds, a SELL takes away
SignedSize(o) == IF o.side = BUY THEN o.size ELSE -o.size

RECURSIVE SumSigned(_)
SumSigned(S) ==
    IF S = {} THEN 0
    ELSE LET o == CHOOSE x \in S : TRUE
         IN  SignedSize(o) + SumSigned(S \ {o})

\* C35: a failed listing is read as 'nothing open': when every approach of
\* get_open_orders raises, the call reports no order, update_active_orders
\* books every tracked order as filled (position_yes, total_volume and a
\* fill record for each) and empties active_orders, and the cycle goes on
\* to the planning with no exception.
FailedListingReadAsEmpty ==
    ListingFailed =>
       /\ reconciled.reported = {}
       /\ active_orders = {}
       /\ position_yes
            = reconciled.position_before + SumSigned(reconciled.tracked)
       /\ Len(reconciled.filled_orders) = Cardinality(reconciled.tracked)
       /\ OrderIds(reconciled.tracked) \subseteq {f.id : f \in FillRecords}
       /\ total_volume = SumValues(fills)
       /\ raised = NoException

\* the listing failed while a BUY and a SELL order were tracked and open
FailedListingWitness ==
    /\ ListingFailed
    /\ reconciled.tracked \subseteq exchange
    /\ \E o \in reconciled.tracked : o.side = BUY
    /\ \E o \in reconciled.tracked : o.side = SELL

(***************************************************************************)
(* Claims about what a cycle leaves alone, checked under SpecMoving.       *)
(***************************************************************************)
\* a tracked order, open on the exchange, with no rung of the target grid
\* of the cycle at its side and price
OffGrid(o) ==
    /\ o \in active_orders
    /\ o \in exchange
    /\ \A i \in DOMAIN target_grid :
          ~(target_grid[i].side = o.side /\ target_grid[i].price = o.price)

\* C37: run_cycle never cancels: no step of a cycle takes an order off the
\* exchange, and an order leaves active_orders only in the step of
\* update_active_orders, and only when its id is not in the list
\* get_open_orders returned; the tracked orders of earlier cycles that are
\* off the target grid stay tracked and open.
RunCycleNeverCancels ==
    [][/\ (~(pc = "idle" /\ pc' = "idle") => exchange \subseteq exchange')
       /\ (active_orders \ active_orders' # {} =>
             /\ pc = "reconcile"
             /\ OrderIds(active_orders \ active_orders')
                  \cap reconciled'.reported = {})
       /\ (pc \in {"plan", "place"} =>
             \A o \in active_orders :
                o \in active_orders' /\ (o \in exchange => o \in exchange'))
      ]_vars

\* a cycle has planned and placed orders and has left alone a tracked, open
\* order of an earlier cycle that is off its target grid
RunCycleNeverCancelsWitness ==
    /\ pc = "done"
    /\ target_grid # <<>>
    /\ placed # <<>>
    /\ \E o \in active_orders : OffGrid(o)

(***************************************************************************)
(* Claims about cancel_all_orders, checked under SpecCancel.               *)
(***************************************************************************)
\* the ids get_open_orders reported to the call
Listed == result[1].ids

\* the ids of the cancel requests, in the order they were sent
RequestedIds == [i \in DOMAIN CancelRequests |-> CancelRequests[i].id]

\* the orders whose cancel request succeeded
Cancelled ==
    {o \in args.open :
        \E i \in DOMAIN CancelRequests :
           CancelRequests[i].id = o.id /\ CancelRequests[i].ok}

\* C39: cancel_all_orders and the local index: when get_open_orders reports
\* at least one order, a cancel request is sent for each reported order,
\* once, whatever the earlier requests ended in, and active_orders is then
\* emptied, failed requests or not; when the list is empty no cancel is
\* sent and active_orders is left as it was; the call returns without an
\* exception.
CancelAllAndIndex ==
    pc = "returned" =>
       /\ raised = NoException
       /\ Listed # {} =>
             /\ RequestedIds = SortedIds(Listed)
             /\ active_orders = {}
       /\ Listed = {} =>
             /\ CancelRequests = <<>>
             /\ active_orders = args.tracked
             /\ exchange = args.open
       /\ [active_orders |-> active_orders, exchange |-> exchange]
            = cancel_all_orders(args.tracked, args.open,
                                {o \in args.open : o.id \in Listed},
                                Cancelled)

\* a request failed, a later one succeeded, and the tracking, which held
\* the order that is still open, is empty
CancelAllWitness ==
    /\ pc = "returned"
    /\ \E i, j \in DOMAIN CancelRequests :
          i < j /\ ~CancelRequests[i].ok /\ CancelRequests[j].ok
    /\ active_orders = {}
    /\ \E o \in args.tracked : o \in exchange

====
